---------------------------- MODULE Spec2Model ----------------------------
(***************************************************************************)
(* A model of gokr-rsync.  The module holds several state machines over    *)
(* one set of variables.  Each has its own specification; the variables of *)
(* the other machines stay at their idle values in it:                     *)
(*   SpecDaemon    HandleDaemonConn followed by HandleConn and the handler *)
(*   SpecRecv      RecvFiles / recvFile1 / receiveData against a peer that *)
(*                 is the sender of this repository or an arbitrary one    *)
(*   SpecDo        Transfer.Do with deleteFiles and the error group        *)
(*   SpecDoFair    the same with fair scheduling of the tasks              *)
(*   SpecSender    the request and send loops of Server.handleConn         *)
(*   SpecWire      client and server of one connection, from the greeting  *)
(*   SpecACL       checkACL                                                *)
(*   SpecMux       multiplexWriter.Write                                   *)
(*   SpecInt64     writeInt64 and its decoder                              *)
(*   SpecSumSizes  sumSizesSqroot on int64 lengths                         *)
(*   SpecServe     Server.Serve                                            *)
(*   SpecSync      repeated runs of one transfer, as in TestReceiver       *)
(*   SpecReceiver  RecvFiles or Transfer.Do, each from its initial states  *)
(*   SpecFileList  Server.sendFileList                                     *)
(***************************************************************************)
EXTENDS Integers, Sequences, FiniteSets, TLC

(***************************************************************************)
(* Bounds of the model.                                                    *)
(***************************************************************************)
\* number of argument lines the client sends before the empty line
MaxFlags == 4
\* length of a file's content, in bytes
MaxLen == 2
\* number of files RecvFiles receives in one run
MaxRecv == 2

\* the bytes file contents are made of
Byte == {0, 1}

RECURSIVE SeqsUpTo(_, _)
SeqsUpTo(S, n) ==
    IF n = 0 THEN {<<>>}
    ELSE LET shorter == SeqsUpTo(S, n - 1)
         IN  shorter \cup {Append(s, x) : s \in shorter, x \in S}

Content == SeqsUpTo(Byte, MaxLen)

Last(s) == s[Len(s)]

Has(log, e) == \E i \in 1..Len(log) : log[i] = e

Count(log, e) == Cardinality({i \in 1..Len(log) : log[i] = e})

\* the position of the first e in log, 0 if there is none
First(log, e) ==
    IF Has(log, e) THEN CHOOSE i \in 1..Len(log) :
                             log[i] = e /\ \A j \in 1..(i - 1) : log[j] # e
    ELSE 0

\* every occurrence of b in log has an occurrence of a before it
Precedes(log, a, b) ==
    \A i \in 1..Len(log) : log[i] = b => \E j \in 1..(i - 1) : log[j] = a

VARIABLES
    \* ---- daemon handler
    dpc,        \* position of HandleDaemonConn / HandleConn
    dlog,       \* what the handler read and wrote so far, in order
    dmod,       \* the requested module name (a sequence of characters)
    dflags,     \* the argument lines read so far
    dpaths,     \* the paths handed to HandleConn
    dseed,      \* the checksum seed written, 0 while none was
    drole,      \* "none", or the role HandleConn dispatched to
    dres,       \* "running", "nil" or the error returned
    dip,        \* the remote address
    dlist,      \* the lines of the module list written, in order
    dframe      \* the error frame the deferred function of HandleConn wrote

daemonVars ==
    <<dpc, dlog, dmod, dflags, dpaths, dseed, drole, dres, dip, dlist,
      dframe>>

VARIABLES
    \* ---- receiver: RecvFiles, recvFile1, receiveData
    flist,      \* the file list: the names of its entries
    fs,         \* the filesystem: the destination tree and one outside file
    ropts,      \* rt.Opts
    rpeer,      \* "sender": the peer is this repository's sender;
                \* "arbitrary": the peer sends any bytes
    rpc,        \* position of RecvFiles / receiveData
    rphase,     \* RecvFiles' phase
    ridx,       \* the index of the file being received
    rres,       \* "running", "nil", "panic" or the error RecvFiles returned
    nrecv,      \* number of calls of recvFile1
    rsh,        \* the sum head read
    rlocal,     \* the open local (basis) file: its location, or "nil"
    rtmp,       \* the pending file: where it will be renamed to, its bytes,
                \* the bytes written to the hash h, the tokens that wrote them
    rlsum,      \* localSum
    rrsum,      \* remoteSum
    rprev,      \* the filesystem when recvFile1 was called
    routside,   \* the kinds of access made outside the destination root
    rlog,       \* what recvFile1 did for the current file, in order
    ssrc,       \* sender: the content of the file it is sending
    soff        \* sender: how much of it was sent

recvVars == <<flist, fs, ropts, rpeer, rpc, rphase, ridx, rres, nrecv,
              rsh, rlocal, rtmp, rlsum, rrsum, rprev, routside, rlog,
              ssrc, soff>>

VARIABLES
    \* ---- Transfer.Do
    tlist,      \* the file list: the set of its names
    ttree0,     \* the names on disk below the destination when Do is called
    ttree,      \* the names on disk below the destination
    topts,      \* rt.Opts and Do's noReport
    tioerr,     \* rt.IOErrors
    tpc,        \* position of Do
    tres,       \* "running", "nil" or the error Do returned
    gen,        \* the generator task
    generr,     \* what GenerateFiles returned
    rcv,        \* the goroutine that runs RecvFiles
    rcverr,     \* what RecvFiles returned
    wrap,       \* the receiver task of the errgroup
    wraperr,    \* what it returned
    egerr,      \* the errgroup's error: the first one a task returned
    tctx,       \* whether the errgroup's context is cancelled
    tlog        \* the statistics read and the goodbye written, in order

doVars == <<tlist, ttree0, ttree, topts, tioerr, tpc, tres, gen, generr, rcv,
            rcverr, wrap, wraperr, egerr, tctx, tlog>>

VARIABLES
    \* ---- the sender of Server.handleConn
    sdin0,      \* everything the peer writes to the sender
    sdin,       \* what of it the sender has not read yet
    sdpc,       \* position of the sender
    sdphase,    \* phase
    queued,     \* the file indices queued
    sdlog,      \* what the sender read and wrote, in order
    sdres       \* "running" or the error handleConn returned

senderVars == <<sdin0, sdin, sdpc, sdphase, queued, sdlog, sdres>>

VARIABLES
    \* ---- the two directions of a connection
    negotiate,  \* whether the protocol versions are exchanged first
    syncpipe,   \* the connection is a pair of io.Pipe: a Write returns only
                \* when what it wrote was read
    s2c,        \* the items the server wrote, in order
    c2s,        \* the items the client wrote, in order
    srvpc,      \* position of HandleConn
    clipc,      \* position of clientRun
    srvw,       \* the server's c.Writer: "raw" or "mux"
    srvr,       \* the server's c.Reader: "raw" or "demux"
    cliw,       \* the client's c.Writer
    clir,       \* the client's c.Reader
    srvread,    \* what the server made of each item it read
    cliread,    \* what the client made of each item it read
    srvn,       \* number of data items the server wrote
    clin,       \* number of data items the client wrote
    clicnt      \* the client's counters: crd of its CountingReader, cwr of
                \* its CountingWriter

wireConf == <<negotiate, syncpipe>>
wireVars == <<wireConf, s2c, c2s, srvpc, clipc, srvw, srvr, cliw, clir,
              srvread, cliread, srvn, clin, clicnt>>

VARIABLES
    \* ---- one call of a function (checkACL, multiplexWriter.Write)
    fnpc,       \* "idle", the function to call, or "done"
    fnin,       \* its arguments
    fnout       \* what it returned and wrote

fnVars == <<fnpc, fnin, fnout>>

VARIABLES
    \* ---- Server.Serve
    servepc,    \* "idle", "accept" (in or before ln.Accept) or "done"
    serveres,   \* "running", "nil" or the error Serve returned
    ctxdone,    \* the context passed to Serve is cancelled
    closerpc,   \* the goroutine of Serve: "wait" (<-ctx.Done()) or "closed"
    lnclosed,   \* the listener is closed
    handlers,   \* per accepted connection: "running" or "returned"
    conns       \* per accepted connection: whether the socket is closed,
                \* what HandleDaemonConn returned, whether it was logged

serveVars ==
    <<servepc, serveres, ctxdone, closerpc, lnclosed, handlers, conns>>

VARIABLES
    \* ---- runs of one client transfer from a source to a destination
    ysrc,       \* the source tree
    ydst,       \* the destination tree
    yopts,      \* the options of the transfer
    yruns,      \* one record for every run made, in order
    ydirty      \* a tree was changed since the last run

syncVars == <<ysrc, ydst, yopts, yruns, ydirty>>

(***************************************************************************)
(* rsyncd: modules and ACLs                                                *)
(***************************************************************************)

\* An ACL rule "action who".  who is "all", a CIDR, or text ParseCIDR rejects;
\* a rule without a space has action "nospace".
Net10 == "10.0.0.0/8"
Net10Hi == "10.128.0.0/9"
Net192 == "192.168.0.0/16"
Ip10 == "10.1.2.3"
Ip10Hi == "10.200.0.9"
Ip11 == "11.0.0.1"
Ip192 == "192.168.1.1"
Ip192Out == "192.169.0.1"
Ip8 == "8.8.8.8"
RemoteAddrs == {Ip10, Ip192, Ip8, "unparseable"}

Rule(a, w) == [action |-> a, who |-> w]

\* net.ParseIP: the four bytes of an address
ParseIP(ip) ==
    CASE ip = Ip10 -> <<10, 1, 2, 3>>
      [] ip = Ip10Hi -> <<10, 200, 0, 9>>
      [] ip = Ip11 -> <<11, 0, 0, 1>>
      [] ip = Ip192 -> <<192, 168, 1, 1>>
      [] ip = Ip192Out -> <<192, 169, 0, 1>>
      [] ip = Ip8 -> <<8, 8, 8, 8>>

ParseCIDROk(who) == who \in {Net10, Net10Hi, Net192}

\* net.ParseCIDR: the network's address and the number of leading ones of
\* its mask
ParseCIDR(who) ==
    CASE who = Net10 -> [IP |-> <<10, 0, 0, 0>>, ones |-> 8]
      [] who = Net10Hi -> [IP |-> <<10, 128, 0, 0>>, ones |-> 9]
      [] who = Net192 -> [IP |-> <<192, 168, 0, 0>>, ones |-> 16]

\* net.IPNet.Contains: the address and the network agree on the bits of
\* the mask
Contains(cidr, ip) ==
    LET n == ParseCIDR(cidr)
        remoteIP == ParseIP(ip)
    IN  \A k \in 1..4 :
           LET left == n.ones - 8 * (k - 1)
               bits == IF left < 0 THEN 0 ELSE IF left > 8 THEN 8 ELSE left
               unmasked == 2 ^ (8 - bits)
           IN  remoteIP[k] \div unmasked = n.IP[k] \div unmasked

RECURSIVE aclFromDenyGoesOn(_, _, _)
aclFromDenyGoesOn(acls, i, ip) ==
    IF i > Len(acls) THEN "ok"
    ELSE LET acl == acls[i] IN
         IF acl.action = "nospace" THEN "invalid acl"
         ELSE IF acl.action \notin {"allow", "deny"} THEN "invalid acl"
         ELSE IF acl.who # "all" /\ ~ParseCIDROk(acl.who) THEN "invalid acl"
         ELSE IF acl.who # "all" /\ ~Contains(acl.who, ip)
              THEN aclFromDenyGoesOn(acls, i + 1, ip)
         ELSE IF acl.action = "allow" THEN "ok"
         ELSE IF i = Len(acls) THEN "access denied"
         ELSE aclFromDenyGoesOn(acls, i + 1, ip)

\* checkACL from rule i on: "ok" (nil) or the kind of error returned
RECURSIVE aclFrom(_, _, _)
aclFrom(acls, i, ip) ==
    IF i > Len(acls) THEN "ok"
    ELSE LET acl == acls[i] IN
         IF acl.action = "nospace" THEN "invalid acl"
         ELSE IF acl.action \notin {"allow", "deny"} THEN "invalid acl"
         ELSE IF acl.who # "all" /\ ~ParseCIDROk(acl.who) THEN "invalid acl"
         ELSE IF acl.who # "all" /\ ~Contains(acl.who, ip)
              THEN aclFrom(acls, i + 1, ip)
         ELSE IF acl.action = "allow" THEN "ok"
         ELSE "access denied"

checkACL(acls, remoteAddr) ==
    IF Len(acls) = 0 THEN "ok"
    ELSE IF remoteAddr = "unparseable" THEN "BUG: invalid remote address"
    ELSE aclFrom(acls, 1, remoteAddr)

\* One call of checkACL, for every rule list and remote address of the
\* bound.
MaxRules == 2
ACLRules ==
    {Rule(a, w) : a \in {"allow", "deny"}, w \in {"all", Net10, Net10Hi, Net192}}
        \cup {Rule("nospace", ""), Rule("permit", "all"), Rule("allow", "1.2.3")}
ACLAddrs == {Ip10, Ip10Hi, Ip11, Ip192, Ip192Out, Ip8, "unparseable"}

FnIdle ==
    /\ fnpc = "idle"
    /\ fnin = <<>>
    /\ fnout = <<>>

ACLInit ==
    /\ fnpc = "checkACL"
    /\ fnin \in [acls : SeqsUpTo(ACLRules, MaxRules), remoteAddr : ACLAddrs]
    /\ fnout = <<>>

CallCheckACL ==
    /\ fnpc = "checkACL"
    /\ fnout' = checkACL(fnin.acls, fnin.remoteAddr)
    /\ fnpc' = "done"
    /\ UNCHANGED fnin

\* a | b on 32-bit unsigned values
RECURSIVE BitOr(_, _)
BitOr(a, b) ==
    IF a = 0 THEN b
    ELSE IF b = 0 THEN a
    ELSE (IF a % 2 = 1 \/ b % 2 = 1 THEN 1 ELSE 0)
            + 2 * BitOr(a \div 2, b \div 2)

\* binary.Write(w, binary.LittleEndian, v) of a uint32: its four bytes
PutUint32(v) ==
    <<v % 256, (v \div 256) % 256, (v \div 65536) % 256,
      (v \div 16777216) % 256>>

\* multiplexWriter.Write(p) for a payload of len bytes: the header bytes and
\* the number of payload bytes handed to the underlying writer, n and err.
\* headerOk, payloadOk: whether the underlying writes succeed.
multiplexWriterWrite(len, headerOk, payloadOk) ==
    LET header == BitOr(7 * 2 ^ 24, len) IN
    IF ~headerOk
    THEN [header |-> <<>>, payload |-> 0, n |-> 0, err |-> "write error"]
    ELSE IF ~payloadOk
    THEN [header |-> PutUint32(header), payload |-> 0, n |-> 0,
          err |-> "write error"]
    ELSE [header |-> PutUint32(header), payload |-> len, n |-> len,
          err |-> "nil"]

\* One call of multiplexWriter.Write: payloads of up to MaxSmall bytes, and
\* payloads whose length is within MaxNear of 2^24 or of a multiple of it.
MaxSmall == 40
MaxNear == 4
MaxTimes == 9
PayloadLens ==
    (0..MaxSmall) \cup
        {t * 2 ^ 24 + d : t \in 1..MaxTimes, d \in (0 - MaxNear)..MaxNear}

MuxInit ==
    /\ fnpc = "Write"
    /\ fnin \in PayloadLens
    /\ fnout = <<>>

CallWrite ==
    /\ fnpc = "Write"
    /\ \E headerOk \in BOOLEAN, payloadOk \in BOOLEAN :
          fnout' = multiplexWriterWrite(fnin, headerOk, payloadOk)
    /\ fnpc' = "done"
    /\ UNCHANGED fnin

\* The configured modules (Server.modules), in configuration order.
Modules ==
    << [Name |-> <<"m">>, Path |-> "/srv/m", ACL |-> <<>>, Writable |-> TRUE],
       [Name |-> <<"r">>, Path |-> "/srv/r",
        ACL |-> <<Rule("deny", Net10), Rule("allow", "all")>>,
        Writable |-> FALSE],
       [Name |-> <<"p">>, Path |-> "/srv/p",
        ACL |-> <<Rule("allow", Net192), Rule("deny", "all")>>,
        Writable |-> TRUE] >>

NoModule == [Name |-> <<>>, Path |-> "", ACL |-> <<>>, Writable |-> FALSE]

ModuleFound(requestedModule) ==
    \E i \in 1..Len(Modules) : Modules[i].Name = requestedModule

\* Server.getModule: the first module of that name
getModule(requestedModule) ==
    IF ModuleFound(requestedModule)
    THEN Modules[CHOOSE i \in 1..Len(Modules) :
                    /\ Modules[i].Name = requestedModule
                    /\ \A j \in 1..(i - 1) : Modules[j].Name # requestedModule]
    ELSE NoModule

formatModuleListReversed ==
    [i \in 1..Len(Modules) |->
        LET mod == Modules[Len(Modules) + 1 - i] IN
        <<mod.Name, "\t", mod.Name, "\n">>]

\* Server.formatModuleList: one line "name TAB comment newline" for each
\* module, in the order of the configuration; the comment is the name
formatModuleList ==
    [i \in 1..Len(Modules) |->
        LET mod == Modules[i] IN <<mod.Name, "\t", mod.Name, "\n">>]

\* module names a client may ask for: the configured ones, the listing
\* requests and one that is not configured
ListRequest == {<<>>, <<"#list">>}
RequestedNames ==
    {Modules[i].Name : i \in 1..Len(Modules)} \cup ListRequest \cup {<<"x">>}

(***************************************************************************)
(* rsyncopts.ParseArguments, as far as the daemon handler depends on it.   *)
(* An argument line is a sequence of characters; an option is one atom.    *)
(***************************************************************************)
OptServer == <<"--server">>
OptSender == <<"--sender">>
OptUnknown == <<"--bogus">>
OptNotImplemented == <<"--block-size=1">>
\* an option of the table that ParseArguments stores (case 'z':
\* opts.do_compression++) and that nothing reads afterwards
OptCompress == <<"--compress">>
Options == {OptServer, OptSender, OptUnknown, OptNotImplemented, OptCompress}
Dot == <<".">>
ArgLines == {OptServer, OptSender, OptUnknown, OptNotImplemented, OptCompress,
             Dot, <<"m", "/">>, <<"m", "/", "s">>}

RECURSIVE Filter(_, _)
Filter(s, S) ==
    IF s = <<>> THEN <<>>
    ELSE IF s[1] \in S THEN <<s[1]>> \o Filter(Tail(s), S)
    ELSE Filter(Tail(s), S)

\* the first index of an erroneous option, 0 when there is none: an option
\* the table does not hold, one that is not implemented, or --sender
\* before --server
RECURSIVE firstBad(_, _, _)
firstBad(args, i, amServer) ==
    IF i > Len(args) THEN 0
    ELSE IF args[i] \in {OptUnknown, OptNotImplemented} THEN i
    ELSE IF args[i] = OptSender /\ ~amServer THEN i
    ELSE firstBad(args, i + 1, amServer \/ args[i] = OptServer)

ParseArguments(args) ==
    LET bad == firstBad(args, 1, FALSE) IN
    IF bad # 0
    THEN [err |-> IF args[bad] = OptUnknown THEN "unknown option"
                  ELSE IF args[bad] = OptNotImplemented
                  THEN "option not yet implemented"
                  ELSE "--sender only allowed with --server",
          sender |-> FALSE, remaining |-> <<>>]
    ELSE [err |-> "nil",
          sender |-> Has(args, OptSender),
          remaining |-> Filter(args, ArgLines \ Options)]

\* strings.TrimPrefix
TrimPrefix(s, prefix) ==
    IF Len(s) >= Len(prefix) /\ SubSeq(s, 1, Len(prefix)) = prefix
    THEN SubSeq(s, Len(prefix) + 1, Len(s))
    ELSE s

\* HandleDaemonConn's rewriting of one requested path
TrimPath(path, module) ==
    LET trimmed == TrimPrefix(path, module.Name) IN
    IF trimmed = <<>> THEN Dot ELSE trimmed

(***************************************************************************)
(* Server.HandleDaemonConn and Server.HandleConn.  dlog records, in order: *)
(*   greeting_w  server greeting written     greeting_r  client greeting   *)
(*   module_r    module name read            lookup      getModule called  *)
(*   acl_check   checkACL called             list_w, exit_w, error_w, ok_w *)
(*   flag_r      one argument line read      args_end    empty line read   *)
(*   seed_w      checksum seed written       mux         writer switched   *)
(*   dispatch    sender or receiver called   frame_w     multiplexed error *)
(***************************************************************************)
sessionChecksumSeed == 666
errorSeed == 238

DaemonInit ==
    /\ dpc = "start"
    /\ dlog = <<>>
    /\ dmod = <<>>
    /\ dflags = <<>>
    /\ dpaths = <<>>
    /\ dseed = 0
    /\ drole = "none"
    /\ dres = "running"
    /\ dip \in RemoteAddrs
    /\ dlist = <<>>
    /\ dframe = <<>>

DaemonIdle ==
    /\ dpc = "idle"
    /\ dlog = <<>>
    /\ dmod = <<>>
    /\ dflags = <<>>
    /\ dpaths = <<>>
    /\ dseed = 0
    /\ drole = "none"
    /\ dres = "running"
    /\ dip = Ip8
    /\ dlist = <<>>
    /\ dframe = <<>>

DReturn(log, res) ==
    /\ dpc' = "done"
    /\ dlog' = log
    /\ dres' = res

\* fmt.Fprintf(cwr, "@RSYNCD: %d\n", ...): the result of the write is dropped
WriteGreeting ==
    /\ dpc = "start"
    /\ dpc' = "readGreeting"
    /\ dlog' = Append(dlog, "greeting_w")
    /\ UNCHANGED <<dmod, dflags, dpaths, dseed, drole, dres, dip, dframe,
                 dlist>>

ReadGreeting ==
    /\ dpc = "readGreeting"
    /\ \E got \in {"@RSYNCD: ", "garbage", "EOF"} :
          IF got = "EOF" THEN DReturn(dlog, "read error")
          ELSE IF got # "@RSYNCD: "
          THEN DReturn(Append(dlog, "greeting_r"), "invalid client greeting")
          ELSE /\ dpc' = "readModule"
               /\ dlog' = Append(dlog, "greeting_r")
               /\ dres' = dres
    /\ UNCHANGED <<dmod, dflags, dpaths, dseed, drole, dip, dframe, dlist>>

\* What HandleDaemonConn does with the module name it read, up to the point
\* where it starts to read the argument lines: the events and the result
\* ("running" when it goes on).
OkBeforeLookup(requestedModule, remoteAddr) ==
    IF requestedModule \in ListRequest
    THEN [log |-> <<"list_w", "exit_w">>, res |-> "nil",
          list |-> formatModuleList]
    ELSE IF ~ModuleFound(requestedModule)
    THEN [log |-> <<"ok_w", "lookup", "error_w">>, res |-> "no such module",
          list |-> <<>>]
    ELSE LET acl == checkACL(getModule(requestedModule).ACL, remoteAddr) IN
         IF acl # "ok"
         THEN [log |-> <<"ok_w", "lookup", "acl_check", "error_w">>,
               res |-> acl, list |-> <<>>]
         ELSE [log |-> <<"ok_w", "lookup", "acl_check">>, res |-> "running",
               list |-> <<>>]

ModuleRequestGoesOn(requestedModule, remoteAddr) ==
    IF requestedModule \in ListRequest
    THEN [log |-> <<"list_w", "exit_w">>, res |-> "nil",
          list |-> formatModuleList]
    ELSE IF ~ModuleFound(requestedModule)
    THEN [log |-> <<"lookup", "error_w">>, res |-> "no such module",
          list |-> <<>>]
    ELSE LET acl == checkACL(getModule(requestedModule).ACL, remoteAddr) IN
         IF acl # "ok"
         THEN [log |-> <<"lookup", "acl_check", "error_w", "ok_w">>,
               res |-> "running", list |-> <<>>]
         ELSE [log |-> <<"lookup", "acl_check", "ok_w">>, res |-> "running",
               list |-> <<>>]

ModuleRequest(requestedModule, remoteAddr) ==
    IF requestedModule \in ListRequest
    THEN [log |-> <<"list_w", "exit_w">>, res |-> "nil",
          list |-> formatModuleList]
    ELSE IF ~ModuleFound(requestedModule)
    THEN [log |-> <<"lookup", "error_w">>, res |-> "no such module",
          list |-> <<>>]
    ELSE LET acl == checkACL(getModule(requestedModule).ACL, remoteAddr) IN
         IF acl # "ok"
         THEN [log |-> <<"lookup", "acl_check", "error_w">>, res |-> acl,
               list |-> <<>>]
         ELSE [log |-> <<"lookup", "acl_check", "ok_w">>, res |-> "running",
               list |-> <<>>]

ReadModule ==
    /\ dpc = "readModule"
    /\ \/ /\ DReturn(dlog, "read error")
          /\ dmod' = dmod
          /\ dlist' = dlist
       \/ \E requestedModule \in RequestedNames :
             LET r == ModuleRequest(requestedModule, dip) IN
             /\ dmod' = requestedModule
             /\ dlist' = r.list
             /\ dlog' = Append(dlog, "module_r") \o r.log
             /\ dres' = r.res
             /\ dpc' = IF r.res = "running" THEN "readFlags" ELSE "done"
    /\ UNCHANGED <<dflags, dpaths, dseed, drole, dip, dframe>>

\* one more argument line
ReadFlag ==
    /\ dpc = "readFlags"
    /\ Len(dflags) < MaxFlags
    /\ \E flag \in ArgLines :
          /\ dflags' = Append(dflags, flag)
          /\ dlog' = Append(dlog, "flag_r")
    /\ UNCHANGED <<dpc, dmod, dpaths, dseed, drole, dres, dip, dframe,
                 dlist>>

ReadFlagFails ==
    /\ dpc = "readFlags"
    /\ DReturn(dlog, "read error")
    /\ UNCHANGED <<dmod, dflags, dpaths, dseed, drole, dip, dframe, dlist>>

\* What HandleDaemonConn does after the empty line, up to its call of
\* HandleConn.  seedOk: whether the write of the error seed succeeds.
ArgsReadNoReport(flags, module, seedOk) ==
    LET pc == ParseArguments(flags) IN
    IF pc.err # "nil"
    THEN [log |-> <<>>, seed |-> 0, res |-> "parsing server args",
          paths |-> <<>>]
    ELSE IF Len(pc.remaining) < 2
    THEN [log |-> <<>>, seed |-> 0, res |-> "invalid args", paths |-> <<>>]
    ELSE IF pc.remaining[1] # Dot
    THEN [log |-> <<>>, seed |-> 0, res |-> "protocol error", paths |-> <<>>]
    ELSE [log |-> <<>>, seed |-> 0, res |-> "running",
          paths |-> [i \in 1..(Len(pc.remaining) - 1) |->
                        TrimPath(pc.remaining[i + 1], module)]]

ArgsRead(flags, module, seedOk) ==
    LET pc == ParseArguments(flags) IN
    IF pc.err # "nil"
    THEN IF seedOk
         THEN [log |-> <<"seed_w", "frame_w">>, seed |-> errorSeed,
               res |-> "parsing server args", paths |-> <<>>]
         ELSE [log |-> <<>>, seed |-> 0, res |-> "write error", paths |-> <<>>]
    ELSE IF Len(pc.remaining) < 2
    THEN [log |-> <<>>, seed |-> 0, res |-> "invalid args", paths |-> <<>>]
    ELSE IF pc.remaining[1] # Dot
    THEN [log |-> <<>>, seed |-> 0, res |-> "protocol error", paths |-> <<>>]
    ELSE [log |-> <<>>, seed |-> 0, res |-> "running",
          paths |-> [i \in 1..(Len(pc.remaining) - 1) |->
                        TrimPath(pc.remaining[i + 1], module)]]

ReadEmptyLine ==
    /\ dpc = "readFlags"
    /\ \E seedOk \in BOOLEAN :
          LET r == ArgsRead(dflags, getModule(dmod), seedOk) IN
          /\ dlog' = Append(dlog, "args_end") \o r.log
          /\ dseed' = r.seed
          /\ dres' = r.res
          /\ dpaths' = r.paths
          /\ dpc' = IF r.res = "running" THEN "handleConn" ELSE "done"
    /\ UNCHANGED <<dmod, dflags, drole, dip, dframe, dlist>>

\* Server.HandleConn with negotiate = false, up to the call of the sender
\* or receiver handler.
HandleConn ==
    /\ dpc = "handleConn"
    /\ \/ /\ DReturn(dlog, "write error")
          /\ UNCHANGED <<dseed, drole>>
       \/ /\ dseed' = sessionChecksumSeed
          /\ drole' = IF ParseArguments(dflags).sender THEN "sender"
                       ELSE "receiver"
          /\ dlog' = dlog \o <<"seed_w", "mux", "dispatch">>
          /\ dpc' = "transfer"
          /\ dres' = dres
    /\ UNCHANGED <<dmod, dflags, dpaths, dip, dframe, dlist>>

\* handleConnReceiver.  delete: opts.DeleteMode(); fail: the step that
\* fails, if one does.  The log has "excl_r" for the read of the exclusion
\* list, "flist_r" for the read of the file list and "do_fs" for rt.Do,
\* which works on the paths under module.Path.
handleConnReceiverChecksLast(module, delete, fail) ==
    LET excl == IF delete THEN <<"excl_r">> ELSE <<>> IN
    IF delete /\ fail = "excl"
    THEN [log |-> excl, res |-> "transfer error"]
    ELSE IF fail = "flist"
    THEN [log |-> excl \o <<"flist_r">>, res |-> "transfer error"]
    ELSE IF ~module.Writable
    THEN [log |-> excl \o <<"flist_r">>, res |-> "module is read only"]
    ELSE IF fail = "do"
    THEN [log |-> excl \o <<"flist_r", "do_fs">>, res |-> "transfer error"]
    ELSE [log |-> excl \o <<"flist_r", "do_fs">>, res |-> "nil"]

handleConnReceiver(module, delete, fail) ==
    LET excl == IF delete THEN <<"excl_r">> ELSE <<>> IN
    IF ~module.Writable
    THEN [log |-> <<>>, res |-> "module is read only"]
    ELSE IF delete /\ fail = "excl"
    THEN [log |-> excl, res |-> "transfer error"]
    ELSE IF fail = "flist"
    THEN [log |-> excl \o <<"flist_r">>, res |-> "transfer error"]
    ELSE IF fail = "do"
    THEN [log |-> excl \o <<"flist_r", "do_fs">>, res |-> "transfer error"]
    ELSE [log |-> excl \o <<"flist_r", "do_fs">>, res |-> "nil"]

\* handleConnSender: the exclusion list is read, then st.Do sends
handleConnSender(module, fail) ==
    IF fail = "excl"
    THEN [log |-> <<"excl_r">>, res |-> "transfer error"]
    ELSE IF fail = "do"
    THEN [log |-> <<"excl_r", "do_fs">>, res |-> "transfer error"]
    ELSE [log |-> <<"excl_r", "do_fs">>, res |-> "nil"]

\* the deferred function of HandleConn: if err != nil { mpx.WriteMsg(...) }
deferredWritesAlways(res) == TRUE

deferredWrites(res) == res # "nil"

\* the handler HandleConn dispatched to runs and returns; an error goes to
\* the client in a multiplexed error frame (the deferred function)
HandlerReturns ==
    /\ dpc = "transfer"
    /\ \E delete \in BOOLEAN, fail \in {"none", "excl", "flist", "do"} :
          LET r == IF drole = "receiver"
                   THEN handleConnReceiver(getModule(dmod), delete, fail)
                   ELSE handleConnSender(getModule(dmod), fail)
          IN
          /\ DReturn(dlog \o r.log
                        \o (IF deferredWrites(r.res) THEN <<"frame_w">>
                            ELSE <<>>),
                     r.res)
          /\ dframe' = IF deferredWrites(r.res)
                        THEN [role |-> drole, err |-> r.res] ELSE dframe
    /\ UNCHANGED <<dmod, dflags, dpaths, dseed, drole, dip, dlist>>

(***************************************************************************)
(* Checksums and sum heads                                                 *)
(***************************************************************************)
blockSize == 700
checksumLength == 16
chunkSize == 32 * 1024

\* the largest r in lo..hi with r * r <= n
RECURSIVE SqrtBetween(_, _, _)
SqrtBetween(n, lo, hi) ==
    IF lo = hi THEN lo
    ELSE LET mid == (lo + hi + 1) \div 2 IN
         IF mid * mid <= n THEN SqrtBetween(n, mid, hi)
         ELSE SqrtBetween(n, lo, mid - 1)

\* math.Sqrt followed by the conversion to int32: the integer square root
\* (46340 is the root of the greatest square below 2^31)
Sqrt(n) == SqrtBetween(n, 0, 46340)

sumSizesSqroot(len) ==
    LET root == Sqrt(len)
        blockLength == IF root < blockSize THEN blockSize ELSE root
    IN  [ChecksumCount |-> (len + (blockLength - 1)) \div blockLength,
         BlockLength |-> blockLength,
         ChecksumLength |-> checksumLength,
         RemainderLength |-> len % blockLength]

\* binary.Write(h, binary.LittleEndian, seed) for an int32 seed >= 0
LittleEndian32(v) ==
    <<v % 256, (v \div 256) % 256, (v \div 65536) % 256, (v \div 16777216) % 256>>

\* The MD4 digest of a byte sequence.  The digest is computed by a small
\* polynomial hash in its place: a function of every byte and of their order.
RECURSIVE md4From(_, _)
md4From(h, bytes) ==
    IF bytes = <<>> THEN h
    ELSE md4From((h * 31 + bytes[1] + 1) % 65521, Tail(bytes))

md4(bytes) == md4From(7, bytes)

SumWithoutSeed(content) == md4(content)

\* sender: h := md4.New(); binary.Write(h, LittleEndian, int32(seed));
\* h.Write(chunk) for every chunk; h.Sum(nil)
SenderSum(content) == md4(LittleEndian32(sessionChecksumSeed) \o content)

LocalSumUnkeyed(written) == md4(written)

\* receiver: h := md4.New(); binary.Write(h, LittleEndian, rt.Seed); every
\* write to the pending file goes to h as well; localSum := h.Sum(nil)
LocalSum(written) == md4(LittleEndian32(sessionChecksumSeed) \o written)

(***************************************************************************)
(* The filesystem.  The destination root holds the entries f, d and d/f;   *)
(* out/f is a file outside the root.  A symlink at f points to out/f, a    *)
(* symlink at d points to the directory out.                               *)
(***************************************************************************)
Locs == {"f", "d", "d/f", "out/f"}
Outside == {"out/f"}

Absent == [kind |-> "absent", data |-> <<>>]
Dir == [kind |-> "dir", data |-> <<>>]
Link == [kind |-> "link", data |-> <<>>]
Reg(content) == [kind |-> "reg", data |-> content]

\* the content of the outside file
Secret == <<1, 1>>

\* the file lists of the model: one regular file, at the top or below d
FileLists == {<<"f">>, <<"d/f">>}

\* the initial filesystems for a file list
InitialFs(list) ==
    IF list[1] = "f"
    THEN {[l \in Locs |->
             IF l = "f" THEN n
             ELSE IF l = "d" THEN Dir
             ELSE IF l = "d/f" THEN Absent
             ELSE Reg(Secret)] :
          n \in {Absent, Dir, Link} \cup {Reg(c) : c \in Content}}
    ELSE {[l \in Locs |->
             IF l = "f" THEN Absent
             ELSE IF l = "d" THEN (IF n = Link THEN Link ELSE Dir)
             ELSE IF l = "d/f" THEN (IF n = Link THEN Absent ELSE n)
             ELSE Reg(Secret)] :
          n \in {Absent, Link} \cup {Reg(c) : c \in Content}}

\* os.Root.Open(name) on the destination root: the location opened, or the
\* error.  A symlink that leads out of the root is an error.
RootOpen(tree, name) ==
    IF name = "f"
    THEN CASE tree["f"].kind = "absent" -> [loc |-> "nil", err |-> "not exist"]
           [] tree["f"].kind = "link" -> [loc |-> "nil", err |-> "path escapes"]
           [] OTHER -> [loc |-> "f", err |-> "nil"]
    ELSE CASE tree["d"].kind = "link" -> [loc |-> "nil", err |-> "path escapes"]
           [] tree["d"].kind # "dir" -> [loc |-> "nil", err |-> "not exist"]
           [] tree["d/f"].kind = "absent" -> [loc |-> "nil", err |-> "not exist"]
           [] OTHER -> [loc |-> "d/f", err |-> "nil"]

\* os.Open(filepath.Join(dest, name)): the kernel follows every symlink
OsOpen(tree, name) ==
    IF name = "f"
    THEN CASE tree["f"].kind = "absent" -> [loc |-> "nil", err |-> "not exist"]
           [] tree["f"].kind = "link" -> [loc |-> "out/f", err |-> "nil"]
           [] OTHER -> [loc |-> "f", err |-> "nil"]
    ELSE CASE tree["d"].kind = "link" -> [loc |-> "out/f", err |-> "nil"]
           [] tree["d"].kind # "dir" -> [loc |-> "nil", err |-> "not exist"]
           [] tree["d/f"].kind = "absent" -> [loc |-> "nil", err |-> "not exist"]
           [] OTHER -> [loc |-> "d/f", err |-> "nil"]

\* The directory entry that filepath.Join(rt.Dest, name) names for the
\* kernel: symlinks in the directory part are followed, the last component
\* is the entry itself (rename and lchown do not follow it).
OsEntry(tree, name) ==
    IF name = "f" THEN "f"
    ELSE IF tree["d"].kind = "link" THEN "out/f"
    ELSE "d/f"

\* Transfer.openLocalFile: the local file it returns ("nil" for none)
openLocalFileFollowing(tree, name) ==
    LET in == OsOpen(tree, name) IN
    IF in.err # "nil" THEN [file |-> "nil", err |-> in.err]
    ELSE IF tree[in.loc].kind = "dir"
    THEN [file |-> "nil", err |-> "is a directory"]
    ELSE [file |-> in.loc, err |-> "nil"]

openLocalFile(tree, name) ==
    LET in == RootOpen(tree, name) IN
    IF in.err # "nil" THEN [file |-> "nil", err |-> in.err]
    ELSE IF tree[in.loc].kind = "dir"
    THEN [file |-> "nil", err |-> "is a directory"]
    ELSE [file |-> in.loc, err |-> "nil"]

(***************************************************************************)
(* What the receiver reads.  With rpeer = "sender" the peer is the sender  *)
(* of this repository (Server.handleConn): per file the index, the sum     *)
(* head of the source file, the source in literal chunks, the token 0 and  *)
(* the checksum.  With rpeer = "arbitrary" every read yields any value.    *)
(***************************************************************************)
NoTmp == [at |-> "none", data |-> <<>>, sum |-> <<>>, parts |-> <<>>]
NoSumHead ==
    [ChecksumCount |-> 0, BlockLength |-> 0, ChecksumLength |-> 0,
     RemainderLength |-> 0]
OutCap == MaxLen

Min(a, b) == IF a < b THEN a ELSE b

ArbitrarySumHeads ==
    {[ChecksumCount |-> c, BlockLength |-> b,
      ChecksumLength |-> checksumLength, RemainderLength |-> r] :
        c \in 1..2, b \in 1..2, r \in 0..1}
    \cup {[ChecksumCount |-> 1, BlockLength |-> -1,
           ChecksumLength |-> checksumLength, RemainderLength |-> 0]}

IdxChoices ==
    IF rpeer = "sender" THEN (-1)..(Len(flist) - 1) ELSE (-2)..Len(flist)

SumHeadChoices ==
    IF rpeer = "sender" THEN {sumSizesSqroot(Len(ssrc))}
    ELSE ArbitrarySumHeads

\* the sender's loop over the source file: n, err := f.Read(buf) yields
\* between 1 and chunkSize bytes, which go out as one literal token; at the
\* end of the file the token 0
SenderTokens(content, off) ==
    IF off < Len(content)
    THEN {[n |-> k, data |-> SubSeq(content, off + 1, off + k)] :
            k \in 1..Min(chunkSize, Len(content) - off)}
    ELSE {[n |-> 0, data |-> <<>>]}

TokenChoices ==
    IF rpeer = "sender" THEN SenderTokens(ssrc, soff)
    ELSE {[n |-> 0, data |-> <<>>]}
         \cup {[n |-> Len(d), data |-> d] : d \in Content \ {<<>>}}
         \cup {[n |-> -(i + 1), data |-> <<>>] : i \in 0..MaxLen}

SumChoices(localSum) ==
    IF rpeer = "sender" THEN {SenderSum(ssrc)}
    ELSE {localSum, SenderSum(<<>>), 0}

(***************************************************************************)
(* Transfer.RecvFiles, recvFile1 and receiveData                           *)
(***************************************************************************)
RecvInit ==
    /\ flist \in FileLists
    /\ fs \in InitialFs(flist)
    /\ ropts \in [DryRun : BOOLEAN]
    /\ rpeer \in {"sender", "arbitrary"}
    /\ rpc = "readIdx"
    /\ rphase = 0
    /\ ridx = -1
    /\ rres = "running"
    /\ nrecv = 0
    /\ rsh = NoSumHead
    /\ rlocal = "nil"
    /\ rtmp = NoTmp
    /\ rlsum = 0
    /\ rrsum = 0
    /\ rprev = fs
    /\ routside = {}
    /\ rlog = <<>>
    /\ ssrc \in (IF rpeer = "sender" THEN Content ELSE {<<>>})
    /\ soff = 0

RecvIdle ==
    /\ flist = <<"f">>
    /\ fs = [l \in Locs |-> Absent]
    /\ ropts = [DryRun |-> FALSE]
    /\ rpeer = "sender"
    /\ rpc = "idle"
    /\ rphase = 0
    /\ ridx = -1
    /\ rres = "running"
    /\ nrecv = 0
    /\ rsh = NoSumHead
    /\ rlocal = "nil"
    /\ rtmp = NoTmp
    /\ rlsum = 0
    /\ rrsum = 0
    /\ rprev = fs
    /\ routside = {}
    /\ rlog = <<>>
    /\ ssrc = <<>>
    /\ soff = 0

\* receiveData returns an error (and with it recvFile1 and RecvFiles): the
\* deferred out.Cleanup() removes the pending file if there is one
ReturnWithoutCleanup(res) ==
    /\ rpc' = "done"
    /\ rres' = res
    /\ UNCHANGED <<rtmp, rlog>>

ReturnError(res) ==
    /\ rpc' = "done"
    /\ rres' = res
    /\ rtmp' = NoTmp
    /\ rlog' = IF rtmp.at # "none" THEN Append(rlog, "cleanup") ELSE rlog

\* One iteration of RecvFiles up to the first read of receiveData: read an
\* index; -1 ends a phase; otherwise recvFile1 prints the name (dry run) or
\* opens the local file.
RecvIndex ==
    /\ rpc = "readIdx"
    /\ \E idx \in IdxChoices :
          /\ IF idx = -1
             THEN /\ IF rphase = 0
                     THEN /\ rphase' = 1
                          /\ UNCHANGED <<rpc, rres>>
                     ELSE /\ rpc' = "done"
                          /\ rres' = "nil"
                          /\ rphase' = rphase
                  /\ UNCHANGED <<ridx, nrecv, rlocal, rprev, rlog, ssrc, soff>>
             ELSE /\ nrecv < MaxRecv
                  /\ rphase' = rphase
                  /\ IF idx < 0 \/ idx >= Len(flist)
                     THEN \* fileList[idx]: runtime error, index out of range
                          /\ rpc' = "done"
                          /\ rres' = "panic: index out of range"
                          /\ UNCHANGED <<ridx, nrecv, rlocal, rprev, rlog, ssrc,
                                         soff>>
                     ELSE /\ ridx' = idx
                          /\ nrecv' = nrecv + 1
                          /\ rres' = rres
                          /\ IF ropts.DryRun
                             THEN /\ rpc' = rpc
                                  /\ UNCHANGED <<rlocal, rprev, rlog, ssrc, soff>>
                             ELSE /\ rpc' = "sumHead"
                                  /\ rlocal' = openLocalFile(fs, flist[idx + 1]).file
                                  /\ rprev' = fs
                                  /\ rlog' = <<"open">>
                                  /\ soff' = 0
                                  /\ ssrc' = ssrc
    /\ routside' = routside \cup
          (IF rlocal' \in Outside THEN {"open"} ELSE {})
    /\ UNCHANGED <<flist, fs, ropts, rpeer, rsh, rtmp, rlsum, rrsum>>

\* any read of the connection may fail instead
ReadFails ==
    /\ rpc \in {"readIdx", "sumHead", "token", "sum"}
    /\ ReturnError("read error")
    /\ UNCHANGED <<flist, fs, ropts, rpeer, rphase, ridx, nrecv, rsh, rlocal,
                   rlsum, rrsum, rprev, routside, ssrc, soff>>

\* receiveData: read the sum head, create the pending file
ReadSumHead ==
    /\ rpc = "sumHead"
    /\ \E sh \in SumHeadChoices, created \in BOOLEAN :
          /\ rsh' = sh
          /\ IF created
             THEN LET at == OsEntry(fs, flist[ridx + 1]) IN
                  /\ rtmp' = [NoTmp EXCEPT !.at = at]
                  /\ rlog' = rlog \o <<"sumhead", "create">>
                  /\ routside' = routside \cup
                        (IF at \in Outside THEN {"create"} ELSE {})
                  /\ rpc' = "token"
                  /\ rres' = rres
             ELSE /\ ReturnError("cannot create pending file")
                  /\ routside' = routside
    /\ UNCHANGED <<flist, fs, ropts, rpeer, rphase, ridx, nrecv, rlocal,
                   rlsum, rrsum, rprev, ssrc, soff>>

CopyBlockNoRemainder(sh, i, basis) ==
    LET offset2 == i * sh.BlockLength
        dataLen == sh.BlockLength
    IN  IF dataLen < 0 THEN [res |-> "panic", data |-> <<>>]
        ELSE IF offset2 < 0 THEN [res |-> "read error", data |-> <<>>]
        ELSE IF dataLen > 0 /\ offset2 + dataLen > Len(basis)
        THEN [res |-> "read error", data |-> <<>>]
        ELSE [res |-> "ok", data |-> SubSeq(basis, offset2 + 1, offset2 + dataLen)]

\* the block a back-reference to block i names, read with localFile.ReadAt
CopyBlock(sh, i, basis) ==
    LET offset2 == i * sh.BlockLength
        dataLen == IF i = sh.ChecksumCount - 1 /\ sh.RemainderLength # 0
                   THEN sh.RemainderLength ELSE sh.BlockLength
    IN  IF dataLen < 0 THEN [res |-> "panic", data |-> <<>>]
        ELSE IF offset2 < 0 THEN [res |-> "read error", data |-> <<>>]
        ELSE IF dataLen > 0 /\ offset2 + dataLen > Len(basis)
        THEN [res |-> "read error", data |-> <<>>]
        ELSE [res |-> "ok", data |-> SubSeq(basis, offset2 + 1, offset2 + dataLen)]

\* what one token makes receiveData write: the literal, or the block of the
\* local file
TokenData(token, sh, local, tree) ==
    IF token.n > 0 THEN [res |-> "ok", data |-> token.data]
    ELSE IF local = "nil" THEN [res |-> "BUG: local file not open", data |-> <<>>]
    ELSE CopyBlock(sh, -(token.n + 1), tree[local].data)

\* receiveData: one round of the token loop
RecvToken ==
    /\ rpc = "token"
    /\ \E token \in TokenChoices, written \in BOOLEAN :
          /\ soff' = IF rpeer = "sender" THEN soff + token.n ELSE soff
          /\ IF token.n = 0
             THEN /\ rpc' = "sum"
                  /\ UNCHANGED <<rres, rtmp, rlog>>
             ELSE LET d == TokenData(token, rsh, rlocal, fs) IN
                  IF d.res # "ok" THEN ReturnError(d.res)
                  ELSE IF ~written THEN ReturnError("write error")
                  ELSE /\ Len(rtmp.data) + Len(d.data) <= OutCap
                       \* wr.Write(data), wr = io.MultiWriter(out, h)
                       /\ rtmp' = [rtmp EXCEPT
                                     !.data = rtmp.data \o d.data,
                                     !.sum = rtmp.sum \o d.data,
                                     !.parts = Append(rtmp.parts,
                                         [n |-> token.n, data |-> d.data])]
                       /\ UNCHANGED <<rpc, rres, rlog>>
    /\ UNCHANGED <<flist, fs, ropts, rpeer, rphase, ridx, nrecv, rsh,
                   rlocal, rlsum, rrsum, rprev, routside, ssrc>>

\* the checksums differ: receiveData returns the error, recvFile1 and
\* RecvFiles pass it on
FileCorruptionRedo ==
    /\ rpc' = "readIdx"
    /\ rres' = rres
    /\ rtmp' = NoTmp
    /\ rlog' = Append(rlog, "cleanup")

FileCorruption == ReturnError("file corruption")

\* receiveData after the token 0: read the remote checksum, compare, rename
\* the pending file to its final name, set the permissions.
\*   renamed: whether out.CloseAtomicallyReplace() succeeds
\*   perms:   whether setPerms succeeds;  chown: whether it calls os.Lchown
AfterSum(remoteSum, renamed, perms, chown) ==
    LET localSum == LocalSum(rtmp.sum)
        at == rtmp.at
    IN  /\ rlsum' = localSum
        /\ rrsum' = remoteSum
        /\ IF localSum # remoteSum
           THEN /\ FileCorruption
                /\ UNCHANGED <<fs, routside>>
           ELSE IF ~renamed \/ fs[at].kind = "dir"
           THEN /\ ReturnError("rename error")
                /\ UNCHANGED <<fs, routside>>
           ELSE /\ fs' = [fs EXCEPT ![at] = Reg(rtmp.data)]
                /\ rtmp' = NoTmp
                /\ routside' = routside
                      \cup (IF at \in Outside THEN {"rename"} ELSE {})
                      \cup (IF at \in Outside /\ chown THEN {"lchown"} ELSE {})
                /\ rlog' = rlog \o <<"sum", "rename", "setPerms">>
                /\ IF perms
                   THEN /\ rpc' = "readIdx"
                        /\ rres' = rres
                   ELSE /\ rpc' = "done"
                        /\ rres' = "setPerms error"

ReadSum ==
    /\ rpc = "sum"
    /\ \E remoteSum \in SumChoices(LocalSum(rtmp.sum)),
          renamed \in BOOLEAN, perms \in BOOLEAN, chown \in BOOLEAN :
          AfterSum(remoteSum, renamed, perms, chown)
    /\ UNCHANGED <<flist, ropts, rpeer, rphase, ridx, nrecv, rsh,
                   rlocal, rprev, ssrc, soff>>

(***************************************************************************)
(* Transfer.deleteFiles                                                    *)
(***************************************************************************)
\* the names below the destination root, in the lexical order of
\* filepath.Walk; "." is the root itself, x a directory, a and x/y files
WalkOrder == <<".", "a", "x", "x/y">>
DelNames == {WalkOrder[i] : i \in 1..Len(WalkOrder)}

Parent(p) == IF p = "x/y" THEN "x" ELSE IF p = "." THEN "none" ELSE "."

Children(p, tree) == {q \in tree : Parent(q) = p}

\* the destination trees: no destination at all, or the root with any of
\* a, x and x/y
Trees == {t \in SUBSET DelNames : \A p \in t : Parent(p) \in t \cup {"none"}}

isTopDirAny(f) == TRUE

isTopDir(f) == f = "."

\* filepath.Walk(root, walkFn) from the i-th name on: walkFn is called for
\* every name on disk; a name not in the file list is removed with
\* os.Remove, which fails on a directory that is not empty, and the first
\* error ends the walk.
RECURSIVE walk(_, _, _, _)
walk(i, tree, fileList, dryRun) ==
    IF i > Len(WalkOrder) THEN [tree |-> tree, err |-> "nil"]
    ELSE LET path == WalkOrder[i] IN
         IF path \notin tree THEN walk(i + 1, tree, fileList, dryRun)
         ELSE IF path \in fileList \/ dryRun
         THEN walk(i + 1, tree, fileList, dryRun)
         ELSE IF Children(path, tree) # {}
         THEN [tree |-> tree, err |-> "directory not empty"]
         ELSE walk(i + 1, tree \ {path}, fileList, dryRun)

filepathWalk(tree, fileList, dryRun) ==
    IF "." \notin tree THEN [tree |-> tree, err |-> "not exist"]
    ELSE walk(1, tree, fileList, dryRun)

deleteFilesInDryRun(fileList, tree, dryRun, ioErrors) ==
    IF ioErrors > 0 THEN [tree |-> tree, err |-> "nil"]
    ELSE IF \E f \in fileList : isTopDir(f)
    THEN LET w == filepathWalk(tree, fileList, FALSE) IN
         IF w.err = "not exist" THEN [tree |-> tree, err |-> "nil"] ELSE w
    ELSE [tree |-> tree, err |-> "nil"]

deleteFiles(fileList, tree, dryRun, ioErrors) ==
    IF ioErrors > 0 THEN [tree |-> tree, err |-> "nil"]
    ELSE IF \E f \in fileList : isTopDir(f)
    THEN LET w == filepathWalk(tree, fileList, dryRun) IN
         IF w.err = "not exist" THEN [tree |-> tree, err |-> "nil"] ELSE w
    ELSE [tree |-> tree, err |-> "nil"]

(***************************************************************************)
(* Transfer.Do and Transfer.report                                         *)
(***************************************************************************)
\* the largest i/o error count the file list's sender reports
MaxIOErrors == 1

TaskErrors == {"nil", "error"}

DoInit ==
    /\ tlist \in SUBSET DelNames
    /\ ttree0 \in Trees
    /\ ttree = ttree0
    /\ topts \in [DeleteMode : BOOLEAN, DryRun : BOOLEAN, noReport : BOOLEAN]
    /\ tioerr \in 0..MaxIOErrors
    /\ tpc = "start"
    /\ tres = "running"
    /\ gen = "idle"
    /\ generr = "nil"
    /\ rcv = "idle"
    /\ rcverr = "nil"
    /\ wrap = "idle"
    /\ wraperr = "nil"
    /\ egerr = "nil"
    /\ tctx = FALSE
    /\ tlog = <<>>

DoIdle ==
    /\ tlist = {}
    /\ ttree0 = {}
    /\ ttree = {}
    /\ topts = [DeleteMode |-> FALSE, DryRun |-> FALSE, noReport |-> FALSE]
    /\ tioerr = 0
    /\ tpc = "idle"
    /\ tres = "running"
    /\ gen = "idle"
    /\ generr = "nil"
    /\ rcv = "idle"
    /\ rcverr = "nil"
    /\ wrap = "idle"
    /\ wraperr = "nil"
    /\ egerr = "nil"
    /\ tctx = FALSE
    /\ tlog = <<>>

\* Do up to the start of the two tasks of the errgroup
DoStartTasksAnyway ==
    /\ tpc = "start"
    /\ LET d == IF topts.DeleteMode
                THEN deleteFiles(tlist, ttree, topts.DryRun, tioerr)
                ELSE [tree |-> ttree, err |-> "nil"]
       IN  /\ ttree' = d.tree
           /\ tpc' = "wait"
           /\ tres' = tres
           /\ gen' = "running"
           /\ rcv' = "running"
           /\ wrap' = "select"
    /\ UNCHANGED <<tlist, ttree0, topts, tioerr, generr, rcverr, wraperr, egerr,
                   tctx, tlog>>

\* Do up to eg.Wait(): deleteFiles in delete mode, then the two tasks
DoStart ==
    /\ tpc = "start"
    /\ LET d == IF topts.DeleteMode
                THEN deleteFiles(tlist, ttree, topts.DryRun, tioerr)
                ELSE [tree |-> ttree, err |-> "nil"]
       IN  /\ ttree' = d.tree
           /\ IF d.err # "nil"
              THEN /\ tpc' = "done"
                   /\ tres' = d.err
                   /\ UNCHANGED <<gen, rcv, wrap>>
              ELSE /\ tpc' = "wait"
                   /\ tres' = tres
                   /\ gen' = "running"
                   /\ rcv' = "running"
                   /\ wrap' = "select"
    /\ UNCHANGED <<tlist, ttree0, topts, tioerr, generr, rcverr, wraperr, egerr,
                   tctx, tlog>>

\* errgroup: the first task that returns an error sets the group's error
\* and cancels the context
GroupError(err) == IF egerr = "nil" THEN err ELSE egerr
GroupCancel(err) == tctx \/ err # "nil"

\* the generator task: rt.GenerateFiles(fileList) returns
GenReturns ==
    /\ gen = "running"
    /\ \E err \in TaskErrors :
          /\ gen' = "returned"
          /\ generr' = err
          /\ egerr' = GroupError(err)
          /\ tctx' = GroupCancel(err)
    /\ UNCHANGED <<tlist, ttree, ttree0, topts, tioerr, tpc, tres, rcv, rcverr,
                   wrap, wraperr, tlog>>

\* the generator writes to the connection and the peer does not read: the
\* write blocks until the peer reads again
GenBlocks ==
    /\ gen = "running"
    /\ gen' = "blocked"
    /\ UNCHANGED <<tlist, ttree, ttree0, topts, tioerr, tpc, tres, generr, rcv,
                   rcverr, wrap, wraperr, egerr, tctx, tlog>>

GenUnblocks ==
    /\ gen = "blocked"
    /\ gen' = "running"
    /\ UNCHANGED <<tlist, ttree, ttree0, topts, tioerr, tpc, tres, generr, rcv,
                   rcverr, wrap, wraperr, egerr, tctx, tlog>>

\* the goroutine of rt.RecvFiles(fileList): RecvFiles returns and the
\* goroutine offers the result on errChan
RecvFilesReturns ==
    /\ rcv = "running"
    /\ \E err \in TaskErrors :
          /\ rcv' = "sending"
          /\ rcverr' = err
    /\ UNCHANGED <<tlist, ttree, ttree0, topts, tioerr, tpc, tres, gen, generr,
                   wrap, wraperr, egerr, tctx, tlog>>

\* RecvFiles reads from the connection and the peer does not write
RecvFilesBlocks ==
    /\ rcv = "running"
    /\ rcv' = "blocked"
    /\ UNCHANGED <<tlist, ttree, ttree0, topts, tioerr, tpc, tres, gen, generr,
                   rcverr, wrap, wraperr, egerr, tctx, tlog>>

RecvFilesUnblocks ==
    /\ rcv = "blocked"
    /\ rcv' = "running"
    /\ UNCHANGED <<tlist, ttree, ttree0, topts, tioerr, tpc, tres, gen, generr,
                   rcverr, wrap, wraperr, egerr, tctx, tlog>>

\* the receiver task, case err := <-errChan
SelectErrChan ==
    /\ wrap = "select"
    /\ rcv = "sending"
    /\ rcv' = "sent"
    /\ wrap' = "returned"
    /\ wraperr' = rcverr
    /\ egerr' = GroupError(rcverr)
    /\ tctx' = GroupCancel(rcverr)
    /\ UNCHANGED <<tlist, ttree, ttree0, topts, tioerr, tpc, tres, gen, generr,
                   rcverr, tlog>>

\* the receiver task, case <-ctx.Done()
SelectCtxDone ==
    /\ wrap = "select"
    /\ tctx
    /\ wrap' = "returned"
    /\ wraperr' = "context canceled"
    /\ egerr' = GroupError("context canceled")
    /\ UNCHANGED <<tlist, ttree, ttree0, topts, tioerr, tpc, tres, gen, generr,
                   rcv, rcverr, tctx, tlog>>

\* eg.Wait() returns once both tasks have returned
WaitIgnoringError ==
    /\ tpc = "wait"
    /\ gen = "returned"
    /\ wrap = "returned"
    /\ tctx' = TRUE
    /\ tpc' = IF topts.noReport THEN "goodbye" ELSE "read"
    /\ UNCHANGED <<tlist, ttree, ttree0, topts, tioerr, tres, gen, generr, rcv,
                   rcverr, wrap, wraperr, egerr, tlog>>

Wait ==
    /\ tpc = "wait"
    /\ gen = "returned"
    /\ wrap = "returned"
    /\ tctx' = TRUE
    /\ IF egerr # "nil"
       THEN /\ tpc' = "done"
            /\ tres' = egerr
       ELSE /\ tpc' = IF topts.noReport THEN "goodbye" ELSE "read"
            /\ tres' = tres
    /\ UNCHANGED <<tlist, ttree, ttree0, topts, tioerr, gen, generr, rcv, rcverr,
                   wrap, wraperr, egerr, tlog>>

\* report: c.ReadInt64() three times
Stats == <<"read", "written", "size">>

report ==
    /\ tpc \in {Stats[i] : i \in 1..Len(Stats)}
    /\ \E ok \in BOOLEAN :
          IF ok
          THEN /\ tlog' = Append(tlog, tpc)
               /\ tpc' = CASE tpc = "read" -> "written"
                           [] tpc = "written" -> "size"
                           [] OTHER -> "goodbye"
               /\ tres' = tres
          ELSE /\ tpc' = "done"
               /\ tres' = "read error"
               /\ tlog' = tlog
    /\ UNCHANGED <<tlist, ttree, ttree0, topts, tioerr, gen, generr, rcv, rcverr,
                   wrap, wraperr, egerr, tctx>>

\* c.WriteInt32(-1), the final goodbye
Goodbye ==
    /\ tpc = "goodbye"
    /\ \E ok \in BOOLEAN :
          IF ok
          THEN /\ tlog' = Append(tlog, "-1")
               /\ tres' = "nil"
          ELSE /\ tlog' = tlog
               /\ tres' = "write error"
    /\ tpc' = "done"
    /\ UNCHANGED <<tlist, ttree, ttree0, topts, tioerr, gen, generr, rcv, rcverr,
                   wrap, wraperr, egerr, tctx>>

\* the steps the program takes by itself; the others are the peer's
DoProgram ==
    \/ DoStart
    \/ GenReturns
    \/ RecvFilesReturns
    \/ SelectErrChan
    \/ SelectCtxDone
    \/ Wait
    \/ report
    \/ Goodbye

(***************************************************************************)
(* The sender of Server.handleConn (generatorsymlink.go): the request      *)
(* loop, the send loop, the statistics and the final read.  sdin is what   *)
(* the peer (generator, then Do) writes to it, as int32 values; a read     *)
(* with nothing to read blocks.  sdlog records, in order:                  *)
(*   idx_r    a file index read (with its sum head)                        *)
(*   end_r    the -1 read in the request loop     ack_w   the -1 after it  *)
(*   idx_w    a file index written                file_w  that file sent   *)
(*   end_w    the -1 after the last queued file                            *)
(*   read_w, written_w, size_w   the statistics   finish_r  the last read  *)
(***************************************************************************)
\* number of entries of the sender's file list
SenderFiles == 2
\* number of int32 values the peer writes
MaxReq == 3

Requests == (-1)..SenderFiles

SenderInit ==
    /\ sdin0 \in SeqsUpTo(Requests, MaxReq)
    /\ sdin = sdin0
    /\ sdpc = "requests"
    /\ sdphase = 0
    /\ queued = <<>>
    /\ sdlog = <<>>
    /\ sdres = "running"

SenderIdle ==
    /\ sdin0 = <<>>
    /\ sdin = <<>>
    /\ sdpc = "idle"
    /\ sdphase = 0
    /\ queued = <<>>
    /\ sdlog = <<>>
    /\ sdres = "running"

SReturn(log, res) ==
    /\ sdpc' = "done"
    /\ sdlog' = log
    /\ sdres' = res

\* one round of the request loop: read a file index; -1 is acknowledged
\* with -1 and ends the loop, any other index is queued after its sum head
\* was read
RequestLoop ==
    /\ sdpc = "requests"
    /\ sdin # <<>>
    /\ sdin' = Tail(sdin)
    /\ LET fileIndex == Head(sdin) IN
       \E ok \in BOOLEAN :
          IF fileIndex = -1
          THEN /\ sdphase' = sdphase + 1
               /\ queued' = queued
               /\ IF ok
                  THEN /\ sdpc' = "send"
                       /\ sdlog' = sdlog \o <<"end_r", "ack_w">>
                       /\ sdres' = sdres
                  ELSE SReturn(Append(sdlog, "end_r"), "write error")
          ELSE /\ sdphase' = sdphase
               /\ IF ok
                  THEN /\ queued' = Append(queued, fileIndex)
                       /\ sdlog' = Append(sdlog, "idx_r")
                       /\ UNCHANGED <<sdpc, sdres>>
                  ELSE /\ SReturn(sdlog, "read error")
                       /\ queued' = queued
    /\ UNCHANGED sdin0

\* one round of the send loop with a file queued: write its index, open
\* it and send it.  sent: whether all of this succeeds
SendFile ==
    /\ sdpc = "send"
    /\ queued # <<>>
    /\ queued' = Tail(queued)
    /\ LET fileIndex == Head(queued) IN
       \E sent \in BOOLEAN :
          IF fileIndex >= SenderFiles
          THEN \* fileList[fileIndex]: runtime error
               SReturn(Append(sdlog, "idx_w"), "panic: index out of range")
          ELSE IF sent
          THEN /\ sdlog' = sdlog \o <<"idx_w", "file_w">>
               /\ UNCHANGED <<sdpc, sdres>>
          ELSE SReturn(Append(sdlog, "idx_w"), "send error")
    /\ UNCHANGED <<sdin0, sdin, sdphase>>

\* What the sender does once the queue is empty, up to its final read.
\* n: the number of writes that succeed, of the -1 and the three statistics
StatsBeforeEnd(n) ==
    SubSeq(<<"read_w", "written_w", "size_w", "end_w">>, 1, n)

EndAndStats(n) ==
    SubSeq(<<"end_w", "read_w", "written_w", "size_w">>, 1, n)

SendLoopEnds ==
    /\ sdpc = "send"
    /\ queued = <<>>
    /\ \E n \in 0..4 :
          IF n < 4 THEN SReturn(sdlog \o EndAndStats(n), "write error")
          ELSE /\ sdlog' = sdlog \o EndAndStats(n)
               /\ sdpc' = "finish"
               /\ sdres' = sdres
    /\ UNCHANGED <<sdin0, sdin, sdphase, queued>>

\* finish, err := c.readInt32(); handleConn then ends with its error "NYI"
ReadFinish ==
    /\ sdpc = "finish"
    /\ sdin # <<>>
    /\ sdin' = Tail(sdin)
    /\ SReturn(Append(sdlog, "finish_r"), "NYI")
    /\ UNCHANGED <<sdin0, sdphase, queued>>

\* the peer closes the connection: a blocked read returns an error
SenderReadFails ==
    /\ sdpc \in {"requests", "finish"}
    /\ sdin = <<>>
    /\ SReturn(sdlog, "read error")
    /\ UNCHANGED <<sdin0, sdin, sdphase, queued>>

\* the int32 values the sender has written as file indices, in order
RECURSIVE IndexStream(_)
IndexStream(log) ==
    IF log = <<>> THEN <<>>
    ELSE IF Head(log) \in {"ack_w", "end_w"} THEN <<-1>> \o IndexStream(Tail(log))
    ELSE IF Head(log) = "idx_w" THEN <<0>> \o IndexStream(Tail(log))
    ELSE IndexStream(Tail(log))

\* RecvFiles run on a stream of indices (every file received without
\* error): the phase it ends in, whether it returned, and how many indices
\* it read
RECURSIVE RecvFilesOnePhase(_, _, _)
RecvFilesOnePhase(stream, phase, n) ==
    IF stream = <<>> THEN [phase |-> phase, returned |-> FALSE, read |-> n]
    ELSE IF Head(stream) = -1
    THEN [phase |-> phase, returned |-> TRUE, read |-> n + 1]
    ELSE RecvFilesOnePhase(Tail(stream), phase, n + 1)

RECURSIVE RecvFilesOn(_, _, _)
RecvFilesOn(stream, phase, n) ==
    IF stream = <<>> THEN [phase |-> phase, returned |-> FALSE, read |-> n]
    ELSE IF Head(stream) = -1
    THEN IF phase = 0 THEN RecvFilesOn(Tail(stream), phase + 1, n + 1)
         ELSE [phase |-> phase, returned |-> TRUE, read |-> n + 1]
    ELSE RecvFilesOn(Tail(stream), phase, n + 1)

(***************************************************************************)
(* The two directions of a connection after the checksum seed:             *)
(* Server.HandleConn on one side, clientRun on the other.  A write puts    *)
(* one item on the wire, framed or raw as the writer in use makes it; a    *)
(* read takes the next item through the reader in use.                     *)
(***************************************************************************)
\* number of data items each side writes during the transfer
MaxMsgs == 2

Item(kind, what) == [kind |-> kind, what |-> what]

\* what a write through the writer w puts on the wire
Written(w, what) == Item(IF w = "mux" THEN "frame" ELSE "raw", what)

\* what a read through the reader r makes of the next item: it is taken as
\* it was written, or misread when the reader does not match it
ReadAs(r, item) ==
    [what |-> item.what,
     ok |-> (r = "demux") = (item.kind = "frame")]

WireInit ==
    /\ negotiate \in BOOLEAN
    /\ syncpipe \in BOOLEAN
    /\ s2c = <<>>
    /\ c2s = <<>>
    /\ srvpc = IF negotiate THEN "readVersion" ELSE "seed"
    /\ clipc = IF negotiate THEN "writeVersion" ELSE "seed"
    /\ srvw = "raw"
    /\ srvr = "raw"
    /\ cliw = "raw"
    /\ clir = "raw"
    /\ srvread = <<>>
    /\ cliread = <<>>
    /\ srvn = 0
    /\ clin = 0
    /\ clicnt = [crd |-> 0, cwr |-> 0]

WireIdle ==
    /\ negotiate = FALSE
    /\ syncpipe = FALSE
    /\ s2c = <<>>
    /\ c2s = <<>>
    /\ srvpc = "idle"
    /\ clipc = "idle"
    /\ srvw = "raw"
    /\ srvr = "raw"
    /\ cliw = "raw"
    /\ clir = "raw"
    /\ srvread = <<>>
    /\ cliread = <<>>
    /\ srvn = 0
    /\ clin = 0
    /\ clicnt = [crd |-> 0, cwr |-> 0]

\* the bytes of an item on the wire: an int32, in a frame after its header
ItemBytes(item) == IF item.kind = "frame" THEN 4 + 4 ELSE 4

\* A Write of the client: c.Writer is cwr, the CountingWriter on conn.
ClientCountsWrite(item) == [clicnt EXCEPT !.cwr = @ + ItemBytes(item)]

\* A Read of the client through the reader r.  The reader clientRun starts
\* with is crd, the CountingReader on conn; the one it uses after the seed
\* is a bufio.Reader on a MultiplexReader whose Reader is conn itself.
ClientCountsRead(r, item) ==
    IF r = "raw" THEN [clicnt EXCEPT !.crd = @ + ItemBytes(item)] ELSE clicnt

\* The last Write of the server, or of the client, has returned: on a pair
\* of io.Pipe it does when the other end has read what was written.
ServerUnblocked == syncpipe => Len(cliread) = Len(s2c)
ClientUnblocked == syncpipe => Len(srvread) = Len(c2s)

\* HandleConn, negotiate: c.ReadInt32(), c.WriteInt32(ProtocolVersion)
ServerNegotiate ==
    /\ srvpc = "readVersion"
    /\ ServerUnblocked
    /\ Len(srvread) < Len(c2s)
    /\ srvread' = Append(srvread, ReadAs(srvr, c2s[Len(srvread) + 1]))
    /\ s2c' = Append(s2c, Written(srvw, "version"))
    /\ srvpc' = "seed"
    /\ UNCHANGED <<wireConf, c2s, clipc, srvw, srvr, cliw, clir, cliread, srvn,
                   clin,
                   clicnt>>

\* the writer HandleConn uses after the seed
KeepWriter(w) == w

MultiplexWriter(w) == "mux"

\* HandleConn: c.WriteInt32(sessionChecksumSeed); c.Writer = mpx
ServerSeed ==
    /\ srvpc = "seed"
    /\ ServerUnblocked
    /\ s2c' = Append(s2c, Written(srvw, "seed"))
    /\ srvw' = MultiplexWriter(srvw)
    /\ srvpc' = "transfer"
    /\ UNCHANGED <<wireConf, c2s, clipc, srvr, cliw, clir, srvread, cliread,
                   srvn, clin,
                   clicnt>>

\* the handler writes through c.Writer
ServerWrites ==
    /\ srvpc = "transfer"
    /\ ServerUnblocked
    /\ srvn < MaxMsgs
    /\ s2c' = Append(s2c, Written(srvw, "data"))
    /\ srvn' = srvn + 1
    /\ UNCHANGED <<wireConf, c2s, srvpc, clipc, srvw, srvr, cliw, clir,
                   srvread, cliread, clin,
                   clicnt>>

\* the handler reads through c.Reader (rd)
ServerReads ==
    /\ srvpc = "transfer"
    /\ ServerUnblocked
    /\ Len(srvread) < Len(c2s)
    /\ srvread' = Append(srvread, ReadAs(srvr, c2s[Len(srvread) + 1]))
    /\ UNCHANGED <<wireConf, s2c, c2s, srvpc, clipc, srvw, srvr, cliw, clir,
                   cliread, srvn, clin,
                   clicnt>>

\* the handler returns; an error goes out with mpx.WriteMsg(MsgError, ...)
ServerReturns ==
    /\ srvpc = "transfer"
    /\ ServerUnblocked
    /\ \E err \in BOOLEAN :
          s2c' = IF err THEN Append(s2c, Item("frame", "error")) ELSE s2c
    /\ srvpc' = "done"
    /\ UNCHANGED <<wireConf, c2s, clipc, srvw, srvr, cliw, clir, srvread,
                   cliread, srvn, clin,
                   clicnt>>

ClientWritesVersionAfterRead ==
    /\ clipc = "writeVersion"
    /\ ClientUnblocked
    /\ Len(cliread) < Len(s2c)
    /\ c2s' = Append(c2s, Written(cliw, "version"))
    /\ clicnt' = ClientCountsWrite(Written(cliw, "version"))
    /\ clipc' = "readVersion"
    /\ UNCHANGED <<wireConf, s2c, srvpc, srvw, srvr, cliw, clir, srvread,
                   cliread, srvn, clin>>

\* clientRun, negotiate: c.WriteInt32(ProtocolVersion), c.ReadInt32()
ClientWritesVersion ==
    /\ clipc = "writeVersion"
    /\ ClientUnblocked
    /\ c2s' = Append(c2s, Written(cliw, "version"))
    /\ clicnt' = ClientCountsWrite(Written(cliw, "version"))
    /\ clipc' = "readVersion"
    /\ UNCHANGED <<wireConf, s2c, srvpc, srvw, srvr, cliw, clir, srvread,
                   cliread, srvn, clin>>

ClientReadsVersion ==
    /\ clipc = "readVersion"
    /\ ClientUnblocked
    /\ Len(cliread) < Len(s2c)
    /\ cliread' = Append(cliread, ReadAs(clir, s2c[Len(cliread) + 1]))
    /\ clicnt' = ClientCountsRead(clir, s2c[Len(cliread) + 1])
    /\ clipc' = "seed"
    /\ UNCHANGED <<wireConf, s2c, c2s, srvpc, srvw, srvr, cliw, clir, srvread,
                   srvn, clin>>

\* the reader clientRun uses after the seed
KeepReader(r) == r

MultiplexReader(r) == "demux"

\* clientRun: seed, err := c.ReadInt32(); c.Reader = bufio(MultiplexReader)
ClientSeed ==
    /\ clipc = "seed"
    /\ ClientUnblocked
    /\ Len(cliread) < Len(s2c)
    /\ cliread' = Append(cliread, ReadAs(clir, s2c[Len(cliread) + 1]))
    /\ clicnt' = ClientCountsRead(clir, s2c[Len(cliread) + 1])
    /\ clir' = MultiplexReader(clir)
    /\ clipc' = "transfer"
    /\ UNCHANGED <<wireConf, s2c, c2s, srvpc, srvw, srvr, cliw, srvread, srvn,
                   clin>>

ClientReads ==
    /\ clipc = "transfer"
    /\ ClientUnblocked
    /\ Len(cliread) < Len(s2c)
    /\ cliread' = Append(cliread, ReadAs(clir, s2c[Len(cliread) + 1]))
    /\ clicnt' = ClientCountsRead(clir, s2c[Len(cliread) + 1])
    /\ UNCHANGED <<wireConf, s2c, c2s, srvpc, clipc, srvw, srvr, cliw, clir,
                   srvread, srvn, clin>>

ClientWrites ==
    /\ clipc = "transfer"
    /\ ClientUnblocked
    /\ clin < MaxMsgs
    /\ c2s' = Append(c2s, Written(cliw, "data"))
    /\ clicnt' = ClientCountsWrite(Written(cliw, "data"))
    /\ clin' = clin + 1
    /\ UNCHANGED <<wireConf, s2c, srvpc, clipc, srvw, srvr, cliw, clir,
                   srvread, cliread, srvn>>

(***************************************************************************)
(* rsyncConn.writeInt64.  An int64 is held as its four 16-bit limbs, least *)
(* significant first, in two's complement.                                 *)
(***************************************************************************)
Limbs == {0, 1, 32767, 32768, 65535}
Int64s == [1..4 -> Limbs]

\* the two little-endian bytes of a limb
LimbBytes(w) == <<w % 256, w \div 256>>

\* binary.Write(c.wr, binary.LittleEndian, data) of an int64 and of the
\* int32 that int32(data) truncates it to
PutInt64(data) ==
    LimbBytes(data[1]) \o LimbBytes(data[2]) \o LimbBytes(data[3])
        \o LimbBytes(data[4])
PutInt32(data) == LimbBytes(data[1]) \o LimbBytes(data[2])

MinusOne32 == <<255, 255, 255, 255>>

\* data <= 0x7FFFFFFF && data >= 0
FitsInt32(data) == data[4] = 0 /\ data[3] = 0 /\ data[2] < 32768

\* writeInt64(data): the bytes written and the error.  writes: how many of
\* the writes to the connection succeed.
writeInt64Unsigned(data, writes) ==
    IF data[4] = 0 /\ data[3] = 0
    THEN IF writes >= 1 THEN [bytes |-> PutInt32(data), err |-> "nil"]
         ELSE [bytes |-> <<>>, err |-> "write error"]
    ELSE IF writes = 0 THEN [bytes |-> <<>>, err |-> "write error"]
    ELSE IF writes = 1 THEN [bytes |-> MinusOne32, err |-> "write error"]
    ELSE [bytes |-> MinusOne32 \o PutInt64(data), err |-> "nil"]

writeInt64(data, writes) ==
    IF FitsInt32(data)
    THEN IF writes >= 1 THEN [bytes |-> PutInt32(data), err |-> "nil"]
         ELSE [bytes |-> <<>>, err |-> "write error"]
    ELSE IF writes = 0 THEN [bytes |-> <<>>, err |-> "write error"]
    ELSE IF writes = 1 THEN [bytes |-> MinusOne32, err |-> "write error"]
    ELSE [bytes |-> MinusOne32 \o PutInt64(data), err |-> "nil"]

\* The decoder of the peer: an int32, and when it is -1 the eight bytes
\* after it; an int32 is sign-extended to the int64.
readInt64(bytes) ==
    LET limb(i) == bytes[i] + 256 * bytes[i + 1]
        sign == IF bytes[4] >= 128 THEN 65535 ELSE 0
    IN  IF SubSeq(bytes, 1, 4) = MinusOne32
        THEN <<limb(5), limb(7), limb(9), limb(11)>>
        ELSE <<limb(1), limb(3), sign, sign>>

Int64Init ==
    /\ fnpc = "writeInt64"
    /\ fnin \in Int64s
    /\ fnout = <<>>

CallWriteInt64 ==
    /\ fnpc = "writeInt64"
    /\ \E writes \in 0..2 : fnout' = writeInt64(fnin, writes)
    /\ fnpc' = "done"
    /\ UNCHANGED fnin

(***************************************************************************)
(* sumSizesSqroot on the whole range of its int64 argument.  The length is *)
(* held as four 16-bit limbs (see writeInt64); the lengths of the model    *)
(* are below 2^31, where float64 and math.Sqrt are exact enough for the    *)
(* integer square root, or from 2^62 on, where the square root does not    *)
(* fit an int32.  ChecksumCount is held as the two limbs of the int32.     *)
(***************************************************************************)
MaxShortLen == 48
ShortLens ==
    (0..MaxShortLen) \cup {699, 700, 701, 489999, 490000, 490001, 490700,
                           490701, 491401,
                           1000000, 2147395600, 2147483647}
HugeLens == {<<a, b, c, d>> : a \in {0, 1, 65535}, b \in {0, 65535},
                             c \in {0, 1}, d \in {16384, 20000}}

\* an int below 2^31 as limbs, and back
ToLimbs(n) == <<n % 65536, n \div 65536, 0, 0>>
IsShort(len) == len[3] = 0 /\ len[4] = 0 /\ len[2] < 32768
ToInt(len) == len[1] + 65536 * len[2]
FileLens == {ToLimbs(n) : n \in ShortLens} \cup HugeLens

\* int32(math.Sqrt(float64(len))).  For a square root of 2^31 or more the
\* conversion is implementation-dependent: amd64 yields the least int32,
\* arm64 the greatest.
SqrtInt32(len, outOfRange) ==
    IF IsShort(len) THEN Sqrt(ToInt(len))
    ELSE IF outOfRange = "MinInt32" THEN (0 - 2147483647) - 1
    ELSE 2147483647

\* bit i of a length
BitOf(len, i) == (len[(i \div 16) + 1] \div 2 ^ (i % 16)) % 2

\* len + n for 0 <= n < 2^31 (no length of the model makes it overflow)
AddInt(len, n) ==
    LET s1 == len[1] + (n % 65536)
        s2 == len[2] + (n \div 65536) + (s1 \div 65536)
        s3 == len[3] + (s2 \div 65536)
        s4 == len[4] + (s3 \div 65536)
    IN  <<s1 % 65536, s2 % 65536, s3 % 65536, s4 % 65536>>

\* int64 division of a length by 0 < b < 2^31, bit by bit from bit i down:
\* quotient (limbs) and remainder
RECURSIVE DivModFrom(_, _, _, _, _)
DivModFrom(len, b, i, q, rem) ==
    IF i < 0 THEN [q |-> q, rem |-> rem]
    ELSE LET bit == BitOf(len, i) IN
         IF rem >= b - rem - bit
         THEN DivModFrom(len, b, i - 1,
                         [q EXCEPT ![(i \div 16) + 1] = @ + 2 ^ (i % 16)],
                         rem - (b - rem - bit))
         ELSE DivModFrom(len, b, i - 1, q, rem + rem + bit)

DivMod(len, b) == DivModFrom(len, b, 63, <<0, 0, 0, 0>>, 0)

\* int32(v) of a non-negative int64: its low two limbs
Int32Of(v) == <<v[1], v[2]>>

sumSizesSqrootInt64(len, outOfRange) ==
    LET root == SqrtInt32(len, outOfRange)
        blockLength == IF root < blockSize THEN blockSize ELSE root
    IN  [ChecksumCount |->
             Int32Of(DivMod(AddInt(len, blockLength - 1), blockLength).q),
         BlockLength |-> blockLength,
         ChecksumLength |-> checksumLength,
         RemainderLength |-> DivMod(len, blockLength).rem]

SumSizesInit ==
    /\ fnpc = "sumSizesSqroot"
    /\ fnin \in FileLens
    /\ fnout = <<>>

CallSumSizesSqroot ==
    /\ fnpc = "sumSizesSqroot"
    /\ \E outOfRange \in {"MinInt32", "MaxInt32"} :
          fnout' = sumSizesSqrootInt64(fnin, outOfRange)
    /\ fnpc' = "done"
    /\ UNCHANGED fnin

(***************************************************************************)
(* Server.Serve: the accept loop, the goroutine that closes the listener   *)
(* when the context is cancelled, and one goroutine per accepted           *)
(* connection that runs HandleDaemonConn.  HandleDaemonConn ignores its    *)
(* context (`_ = ctx`); here it only returns at some time.                 *)
(***************************************************************************)
MaxConns == 4

\* an accepted connection whose handler runs
OpenConn == [closed |-> FALSE, err |-> "none", logged |-> FALSE]

connAfterWithoutDefer(err) ==
    [closed |-> err = "nil", err |-> err, logged |-> err # "nil"]

\* the end of the goroutine of a connection: HandleDaemonConn returned
\* err, which is logged if it is not nil; the deferred conn.Close() runs
connAfter(err) == [closed |-> TRUE, err |-> err, logged |-> err # "nil"]

ServeIdle ==
    /\ servepc = "idle"
    /\ serveres = "running"
    /\ ctxdone = FALSE
    /\ closerpc = "wait"
    /\ lnclosed = FALSE
    /\ handlers = <<>>
    /\ conns = <<>>

ServeInit ==
    /\ servepc = "accept"
    /\ serveres = "running"
    /\ ctxdone = FALSE
    /\ closerpc = "wait"
    /\ lnclosed = FALSE
    /\ handlers = <<>>
    /\ conns = <<>>

\* the caller cancels the context
Cancel ==
    /\ servepc # "idle"
    /\ ~ctxdone
    /\ ctxdone' = TRUE
    /\ UNCHANGED <<servepc, serveres, closerpc, lnclosed, handlers, conns>>

\* go func() { <-ctx.Done(); ln.Close() }()
CloseListener ==
    /\ closerpc = "wait"
    /\ ctxdone
    /\ closerpc' = "closed"
    /\ lnclosed' = TRUE
    /\ UNCHANGED <<servepc, serveres, ctxdone, handlers, conns>>

\* ln.Accept() returns a connection; its handler is started
Accept ==
    /\ servepc = "accept"
    /\ ~lnclosed
    /\ Len(handlers) < MaxConns
    /\ handlers' = Append(handlers, "running")
    /\ conns' = Append(conns, OpenConn)
    /\ UNCHANGED <<servepc, serveres, ctxdone, closerpc, lnclosed>>

\* what Serve returns for an error of Accept
AcceptErrorReported == "accept error"

AcceptError == IF ctxdone THEN "nil" ELSE "accept error"

\* ln.Accept() returns the error of the closed listener
AcceptClosed ==
    /\ servepc = "accept"
    /\ lnclosed
    /\ servepc' = "done"
    /\ serveres' = AcceptError
    /\ UNCHANGED <<ctxdone, closerpc, lnclosed, handlers, conns>>

\* ln.Accept() returns another error
AcceptFails ==
    /\ servepc = "accept"
    /\ ~lnclosed
    /\ servepc' = "done"
    /\ serveres' = AcceptError
    /\ UNCHANGED <<ctxdone, closerpc, lnclosed, handlers, conns>>

\* a handler returns (and its deferred conn.Close() runs)
HandlerDone ==
    /\ \E i \in 1..Len(handlers) :
          /\ handlers[i] = "running"
          /\ handlers' = [handlers EXCEPT ![i] = "returned"]
          /\ \E err \in {"nil", "error"} :
                conns' = [conns EXCEPT ![i] = connAfter(err)]
    /\ UNCHANGED <<servepc, serveres, ctxdone, closerpc, lnclosed>>

(***************************************************************************)
(* Runs of one transfer (client as receiver, as in TestReceiver): the file *)
(* list of the source, the generator's decision for every entry, the       *)
(* sender's answer and what the receiver leaves in the destination.  The   *)
(* generator, the matching sender and setPerms are described by the        *)
(* specification (Generator task, Sender match algorithm, Receiver task);  *)
(* symlink is renameio.Symlink.  The runs are made without --checksum.     *)
(* A tree holds hello, a regular file or nothing, and hey, a symlink or    *)
(* nothing.                                                                *)
(***************************************************************************)
MaxRuns == 3
SyncNames == {"hello", "hey"}
SyncContent == {<<>>, <<0>>, <<1>>}
SyncMtimes == {1, 2}
SyncTargets == {"hello", "wrong"}

AbsentEntry == [kind |-> "absent", data |-> <<>>, mtime |-> 0, target |-> ""]
RegEntry(data, mtime) ==
    [kind |-> "reg", data |-> data, mtime |-> mtime, target |-> ""]
LinkEntry(target) ==
    [kind |-> "link", data |-> <<>>, mtime |-> 0, target |-> target]

SyncTrees ==
    {[n \in SyncNames |-> IF n = "hello" THEN h ELSE l] :
        h \in {AbsentEntry} \cup
                 {RegEntry(d, t) : d \in SyncContent, t \in SyncMtimes},
        l \in {AbsentEntry} \cup {LinkEntry(t) : t \in SyncTargets}}

\* the time of a run, later than every mtime of a source
Now(run) == 10 + run

\* The file list: the regular files of the source, and its symlinks with
\* their targets when links are preserved.
Listed(src, opts, n) ==
    \/ src[n].kind = "reg"
    \/ src[n].kind = "link" /\ opts.PreserveLinks

NameLen(n) == IF n = "hello" THEN 5 ELSE 3

\* bytes of the file list: per entry flags, name, size, mtime and mode, for
\* a symlink the target; then the end of the list and the i/o error count
fileListBytes(src, opts) ==
    LET entry(n) ==
            IF ~Listed(src, opts, n) THEN 0
            ELSE 2 + NameLen(n) + 4 + 4 + 4
                   + (IF src[n].kind = "link" THEN 4 + 5 ELSE 0)
    IN  entry("hello") + entry("hey") + 1 + 4

\* Generator: a regular file is skipped when the destination has a regular
\* file of the same size and mtime
skipFile(f, st) ==
    /\ st.kind = "reg"
    /\ Len(st.data) = Len(f.data)
    /\ st.mtime = f.mtime

\* Sender, for a requested file: index, sum head, the tokens, the token 0
\* and the checksum.  With a basis of the same content every block is a
\* back-reference of 4 bytes; otherwise the content goes out as a literal.
literalBytesNoMatch(f, st) == Len(f.data)

literalBytes(f, st) ==
    IF st.kind = "reg" /\ st.data = f.data THEN 0 ELSE Len(f.data)

fileBytes(f, st) ==
    LET tokens ==
            IF Len(f.data) = 0 THEN 0
            ELSE IF literalBytes(f, st) = 0
            THEN 4 * sumSizesSqroot(Len(st.data)).ChecksumCount
            ELSE 4 + Len(f.data)
    IN  4 + 16 + tokens + 4 + 16

\* symlink(oldname, newname): what is seen at newname, in order.
\* renameio.Symlink makes the link under a temporary name and renames it.
symlinkRemoveFirst(target, old) == <<old, AbsentEntry, LinkEntry(target)>>

symlink(target, old) == <<old, LinkEntry(target)>>

\* one run: the record of what it did, with the destination it leaves
Run(src, dst, opts, run) ==
    LET f == src["hello"]
        request == f.kind = "reg" /\ ~skipFile(f, dst["hello"])
        l == src["hey"]
        relink == /\ Listed(src, opts, "hey") /\ l.kind = "link"
                  /\ ~(dst["hey"].kind = "link"
                          /\ dst["hey"].target = l.target)
        seen == IF relink THEN symlink(l.target, dst["hey"])
                ELSE <<dst["hey"]>>
        hello == IF request
                 THEN RegEntry(f.data, IF opts.PreserveTimes THEN f.mtime
                                       ELSE Now(run))
                 ELSE dst["hello"]
    IN  [src |-> src,
         before |-> dst,
         dst |-> [n \in SyncNames |->
                     IF n = "hello" THEN hello ELSE seen[Len(seen)]],
         requested |-> IF request THEN {"hello"} ELSE {},
         literal |-> IF request THEN literalBytes(f, dst["hello"]) ELSE 0,
         written |-> fileListBytes(src, opts)
                        + (IF request THEN fileBytes(f, dst["hello"]) ELSE 0)
                        \* the two -1 of the phases, the final -1 and the
                        \* three statistics
                        + 4 + 4 + 4 + 3 * 4,
         heySeen |-> seen,
         n |-> run,
         changed |-> FALSE]

SyncIdle ==
    /\ ysrc = <<>>
    /\ ydst = <<>>
    /\ yopts = <<>>
    /\ yruns = <<>>
    /\ ydirty = FALSE

SyncInit ==
    /\ ysrc \in SyncTrees
    /\ ydst \in SyncTrees
    /\ yopts \in [PreserveTimes : BOOLEAN, PreserveLinks : BOOLEAN]
    /\ yruns = <<>>
    /\ ydirty = FALSE

\* the number of runs made; yruns keeps the last two of them
RunsDone == IF yruns = <<>> THEN 0 ELSE Last(yruns).n

\* maincmd.Main with the same arguments once more
SyncRun ==
    /\ yopts # <<>>
    /\ RunsDone < MaxRuns
    /\ LET r == Run(ysrc, ydst, yopts, RunsDone + 1) IN
       /\ yruns' = (IF yruns = <<>> THEN <<>> ELSE <<Last(yruns)>>)
                        \o <<[r EXCEPT !.changed = ydirty]>>
       /\ ydst' = r.dst
    /\ ydirty' = FALSE
    /\ UNCHANGED <<ysrc, yopts>>

\* between two runs: os.WriteFile(hello, ...) and os.Chtimes(hello, ...)
OverwriteSource ==
    /\ yruns # <<>>
    /\ RunsDone < MaxRuns
    /\ ysrc["hello"].kind = "reg"
    /\ \E d \in SyncContent, t \in SyncMtimes :
          /\ RegEntry(d, t) # ysrc["hello"]
          /\ ysrc' = [ysrc EXCEPT !["hello"] = RegEntry(d, t)]
    /\ ydirty' = TRUE
    /\ UNCHANGED <<ydst, yopts, yruns>>

\* between two runs: renameio.Symlink("wrong", dest/hey)
ReplaceDestLink ==
    /\ yruns # <<>>
    /\ RunsDone < MaxRuns
    /\ \E t \in SyncTargets :
          /\ LinkEntry(t) # ydst["hey"]
          /\ ydst' = [ydst EXCEPT !["hey"] = LinkEntry(t)]
    /\ ydirty' = TRUE
    /\ UNCHANGED <<ysrc, yopts, yruns>>

(***************************************************************************)
(* Server.sendFileList: the items written for the walk of the source, in   *)
(* order.  A file is "dir" or "reg"; the items of one entry are the status *)
(* byte, the name length, the name, the size, the mtime, the mode and,     *)
(* with -o and -g, the user and the group id.                              *)
(***************************************************************************)
MaxFiles == 3
WalkedFiles == SeqsUpTo({"dir", "reg"}, MaxFiles)

fileEntry(opts) ==
    <<"flags", "name_len", "name", "size", "mtime", "mode">>
        \o (IF opts.PreserveUid THEN <<"uid">> ELSE <<>>)
        \o (IF opts.PreserveGid THEN <<"gid">> ELSE <<>>)

RECURSIVE fileEntries(_, _)
fileEntries(files, opts) ==
    IF files = <<>> THEN <<>>
    ELSE fileEntry(opts) \o fileEntries(Tail(files), opts)

\* one round of the loop "for i := 0; i < 2; i++": an id, the length of the
\* name, the name, the end of the set
idMap == <<"map_id", "map_name_len", "map_name", "end_of_set">>

\* The items go to the buffer fileEnt and from there to the connection in
\* one write.  walkErr: the entry at which filepath.Walk fails, 0 if it
\* does not; sent: whether the write to the connection succeeds.
\* items: what the connection got.
sendFileList(files, opts, walkErr, sent) ==
    IF walkErr # 0 THEN [items |-> <<>>, err |-> "walk error"]
    ELSE IF ~sent THEN [items |-> <<>>, err |-> "write error"]
    ELSE [items |-> fileEntries(files, opts)
                      \o <<"end_of_list">> \o idMap \o idMap
                      \o <<"io_errors">>,
          err |-> "nil"]

FileListInit ==
    /\ fnpc = "sendFileList"
    /\ fnin \in [files : WalkedFiles,
                 opts : [PreserveUid : BOOLEAN, PreserveGid : BOOLEAN]]
    /\ fnout = <<>>

CallSendFileList ==
    /\ fnpc = "sendFileList"
    /\ \E walkErr \in 0..Len(fnin.files), sent \in BOOLEAN :
          fnout' = sendFileList(fnin.files, fnin.opts, walkErr, sent)
    /\ fnpc' = "done"
    /\ UNCHANGED fnin

(***************************************************************************)
(* The specifications                                                      *)
(***************************************************************************)
vars ==
    <<daemonVars, recvVars, doVars, senderVars, wireVars, fnVars, serveVars,
      syncVars>>

\* the variables of the other machines
notDaemon ==
    <<recvVars, doVars, senderVars, wireVars, fnVars, serveVars,
      syncVars>>
notRecv ==
    <<daemonVars, doVars, senderVars, wireVars, fnVars, serveVars,
      syncVars>>
notDo ==
    <<daemonVars, recvVars, senderVars, wireVars, fnVars, serveVars,
      syncVars>>
notSender ==
    <<daemonVars, recvVars, doVars, wireVars, fnVars, serveVars,
      syncVars>>
notFn ==
    <<daemonVars, recvVars, doVars, senderVars, wireVars, serveVars, syncVars>>
notServe ==
    <<daemonVars, recvVars, doVars, senderVars, wireVars, fnVars, syncVars>>
notSync ==
    <<daemonVars, recvVars, doVars, senderVars, wireVars, fnVars, serveVars>>
notWire ==
    <<daemonVars, recvVars, doVars, senderVars, fnVars, serveVars,
      syncVars>>

DaemonStep ==
    \/ WriteGreeting /\ UNCHANGED notDaemon
    \/ ReadGreeting /\ UNCHANGED notDaemon
    \/ ReadModule /\ UNCHANGED notDaemon
    \/ ReadFlag /\ UNCHANGED notDaemon
    \/ ReadFlagFails /\ UNCHANGED notDaemon
    \/ ReadEmptyLine /\ UNCHANGED notDaemon
    \/ HandleConn /\ UNCHANGED notDaemon
    \/ HandlerReturns /\ UNCHANGED notDaemon

RecvStep ==
    \/ RecvIndex /\ UNCHANGED notRecv
    \/ ReadFails /\ UNCHANGED notRecv
    \/ ReadSumHead /\ UNCHANGED notRecv
    \/ RecvToken /\ UNCHANGED notRecv
    \/ ReadSum /\ UNCHANGED notRecv

DoStep ==
    \/ DoStart /\ UNCHANGED notDo
    \/ GenReturns /\ UNCHANGED notDo
    \/ GenBlocks /\ UNCHANGED notDo
    \/ GenUnblocks /\ UNCHANGED notDo
    \/ RecvFilesReturns /\ UNCHANGED notDo
    \/ RecvFilesBlocks /\ UNCHANGED notDo
    \/ RecvFilesUnblocks /\ UNCHANGED notDo
    \/ SelectErrChan /\ UNCHANGED notDo
    \/ SelectCtxDone /\ UNCHANGED notDo
    \/ Wait /\ UNCHANGED notDo
    \/ report /\ UNCHANGED notDo
    \/ Goodbye /\ UNCHANGED notDo

\* the daemon handler alone
InitDaemon ==
    DaemonInit /\ RecvIdle /\ DoIdle /\ SenderIdle /\ WireIdle /\ FnIdle
        /\ ServeIdle /\ SyncIdle
SpecDaemon == InitDaemon /\ [][DaemonStep]_vars

\* RecvFiles alone
InitRecv ==
    DaemonIdle /\ RecvInit /\ DoIdle /\ SenderIdle /\ WireIdle /\ FnIdle
        /\ ServeIdle /\ SyncIdle
SpecRecv == InitRecv /\ [][RecvStep]_vars

\* Transfer.Do with its two tasks
InitDo ==
    DaemonIdle /\ RecvIdle /\ DoInit /\ SenderIdle /\ WireIdle /\ FnIdle
        /\ ServeIdle /\ SyncIdle
SpecDo == InitDo /\ [][DoStep]_vars

\* Transfer.Do where the program takes its steps when it can, and a task
\* that can run again and again returns; the peer need not ever read or
\* write
SpecDoFair ==
    /\ SpecDo
    /\ WF_vars(DoProgram /\ UNCHANGED notDo)
    /\ SF_vars(GenReturns /\ UNCHANGED notDo)
    /\ SF_vars(RecvFilesReturns /\ UNCHANGED notDo)

SenderStep ==
    \/ RequestLoop /\ UNCHANGED notSender
    \/ SendFile /\ UNCHANGED notSender
    \/ SendLoopEnds /\ UNCHANGED notSender
    \/ ReadFinish /\ UNCHANGED notSender
    \/ SenderReadFails /\ UNCHANGED notSender

\* the sender of Server.handleConn alone
InitSender ==
    DaemonIdle /\ RecvIdle /\ DoIdle /\ SenderInit /\ WireIdle /\ FnIdle
        /\ ServeIdle /\ SyncIdle
SpecSender == InitSender /\ [][SenderStep]_vars

WireStep ==
    \/ ServerNegotiate /\ UNCHANGED notWire
    \/ ServerSeed /\ UNCHANGED notWire
    \/ ServerWrites /\ UNCHANGED notWire
    \/ ServerReads /\ UNCHANGED notWire
    \/ ServerReturns /\ UNCHANGED notWire
    \/ ClientWritesVersion /\ UNCHANGED notWire
    \/ ClientReadsVersion /\ UNCHANGED notWire
    \/ ClientSeed /\ UNCHANGED notWire
    \/ ClientReads /\ UNCHANGED notWire
    \/ ClientWrites /\ UNCHANGED notWire

\* HandleConn and clientRun on the two ends of one connection
InitWire ==
    DaemonIdle /\ RecvIdle /\ DoIdle /\ SenderIdle /\ WireInit /\ FnIdle
        /\ ServeIdle /\ SyncIdle
SpecWire == InitWire /\ [][WireStep]_vars

ACLStep ==
    \/ CallCheckACL /\ UNCHANGED notFn

\* checkACL alone
InitACL ==
    DaemonIdle /\ RecvIdle /\ DoIdle /\ SenderIdle /\ WireIdle /\ ACLInit
        /\ ServeIdle /\ SyncIdle
SpecACL == InitACL /\ [][ACLStep]_vars

MuxStep ==
    \/ CallWrite /\ UNCHANGED notFn

\* multiplexWriter.Write alone
InitMux ==
    DaemonIdle /\ RecvIdle /\ DoIdle /\ SenderIdle /\ WireIdle /\ MuxInit
        /\ ServeIdle /\ SyncIdle
SpecMux == InitMux /\ [][MuxStep]_vars

Int64Step ==
    \/ CallWriteInt64 /\ UNCHANGED notFn

\* writeInt64 alone
InitInt64 ==
    DaemonIdle /\ RecvIdle /\ DoIdle /\ SenderIdle /\ WireIdle /\ Int64Init
        /\ ServeIdle /\ SyncIdle
SpecInt64 == InitInt64 /\ [][Int64Step]_vars

SumSizesStep ==
    \/ CallSumSizesSqroot /\ UNCHANGED notFn

\* sumSizesSqroot alone
InitSumSizes ==
    DaemonIdle /\ RecvIdle /\ DoIdle /\ SenderIdle /\ WireIdle /\ SumSizesInit
        /\ ServeIdle /\ SyncIdle
SpecSumSizes == InitSumSizes /\ [][SumSizesStep]_vars

ServeStep ==
    \/ Cancel /\ UNCHANGED notServe
    \/ CloseListener /\ UNCHANGED notServe
    \/ Accept /\ UNCHANGED notServe
    \/ AcceptClosed /\ UNCHANGED notServe
    \/ AcceptFails /\ UNCHANGED notServe
    \/ HandlerDone /\ UNCHANGED notServe

\* Serve, where the goroutine that closes the listener runs and Accept on
\* a closed listener returns
InitServe ==
    DaemonIdle /\ RecvIdle /\ DoIdle /\ SenderIdle /\ WireIdle /\ FnIdle
        /\ ServeInit /\ SyncIdle
SpecServe ==
    /\ InitServe /\ [][ServeStep]_vars
    /\ WF_vars(CloseListener /\ UNCHANGED notServe)
    /\ WF_vars(AcceptClosed /\ UNCHANGED notServe)

SyncStep ==
    \/ SyncRun /\ UNCHANGED notSync
    \/ OverwriteSource /\ UNCHANGED notSync
    \/ ReplaceDestLink /\ UNCHANGED notSync

\* runs of one transfer, with changes of the trees between them
InitSync ==
    DaemonIdle /\ RecvIdle /\ DoIdle /\ SenderIdle /\ WireIdle /\ FnIdle
        /\ ServeIdle /\ SyncInit
SpecSync == InitSync /\ [][SyncStep]_vars

\* the receiver: RecvFiles or Transfer.Do, each from its initial states
InitReceiver ==
    /\ DaemonIdle /\ SenderIdle /\ WireIdle /\ FnIdle /\ ServeIdle /\ SyncIdle
    /\ \/ RecvInit /\ DoIdle
       \/ RecvIdle /\ DoInit
ReceiverStep == RecvStep \/ DoStep
SpecReceiver == InitReceiver /\ [][ReceiverStep]_vars

FileListStep ==
    \/ CallSendFileList /\ UNCHANGED notFn

\* sendFileList alone
InitFileList ==
    DaemonIdle /\ RecvIdle /\ DoIdle /\ SenderIdle /\ WireIdle /\ FileListInit
        /\ ServeIdle /\ SyncIdle
SpecFileList == InitFileList /\ [][FileListStep]_vars

(***************************************************************************)
(* Claims about the receiver                                               *)
(***************************************************************************)
\* where the pending file of the current entry is renamed to
Target == OsEntry(rprev, flist[ridx + 1])
Committed == Has(rlog, "rename")

\* C2: fed the tokens the sender made from the source file, receiveData
\* commits exactly the source's bytes, whatever the basis, and the seed-keyed
\* checksum it computed over them is the checksum the sender sent; the
\* comparison never fails against this sender.
C2_DeltaCorrect ==
    rpeer = "sender" =>
        /\ rres # "file corruption"
        /\ rpc = "sum" => rtmp.data = ssrc
        /\ Committed =>
              /\ fs[Target] = Reg(ssrc)
              /\ rlsum = SenderSum(ssrc)
              /\ rlsum = rrsum

C2_Witness ==
    /\ rpeer = "sender"
    /\ Committed
    /\ Len(ssrc) = MaxLen
    /\ rprev["f"].kind = "reg"
    /\ rprev["f"].data # ssrc
    /\ fs["f"] = Reg(ssrc)

\* C3: the computed and the received checksum differ exactly when
\* RecvFiles has returned the 'file corruption' error; it has then stopped
\* (no index is read after it, the file is not redone) and nothing was
\* committed.
C3_CorruptionAborts ==
    /\ rlsum # rrsum <=> rres = "file corruption"
    /\ rres = "file corruption" =>
          /\ rpc = "done"
          /\ ~Committed
          /\ fs = rprev

C3_Witness ==
    /\ rres = "file corruption"
    /\ rpc = "done"
    /\ rlsum # rrsum
    /\ rphase = 1
    /\ nrecv = MaxRecv
    /\ Has(rlog, "cleanup")

\* C4: the destination changes only by the rename that follows a successful
\* comparison of the checksums, and only at the renamed name; when
\* receiveData has returned on any path before the rename, no pending file
\* is left and the destination is as it was.
C4_AtomicReplace ==
    /\ fs # rprev =>
          /\ Committed
          /\ rlsum = rrsum
          /\ \A l \in Locs \ {Target} : fs[l] = rprev[l]
    /\ (rpc = "done" /\ ~Committed) =>
          /\ rtmp = NoTmp
          /\ fs = rprev
    /\ rpc \in {"readIdx", "done"} => rtmp = NoTmp

C4_Witness ==
    /\ rpc = "done"
    /\ rres = "BUG: local file not open"
    /\ Has(rlog, "cleanup")
    /\ rprev["f"].kind = "link"
    /\ fs = rprev

\* C5: a symlink at the name of an incoming regular file, pointing out of
\* the destination root: the outside file is never opened as the basis and
\* never changed, and once the file is committed the name is a regular file
\* with the source's content.
C5_SymlinkReplaced ==
    (flist = <<"f">> /\ rprev["f"].kind = "link") =>
        /\ rlocal = "nil"
        /\ routside = {}
        /\ fs["out/f"] = Reg(Secret)
        /\ (Committed /\ rpeer = "sender") => fs["f"] = Reg(ssrc)

C5_Witness ==
    /\ flist = <<"f">>
    /\ rprev["f"].kind = "link"
    /\ rpeer = "sender"
    /\ rres = "nil"
    /\ Len(ssrc) = MaxLen
    /\ fs["f"] = Reg(ssrc)
    /\ fs["out/f"] = Reg(Secret)

\* C6: every filesystem access the receiver makes for an entry stays beneath
\* the destination root, also with a symlink as a directory component.
C6_AllBeneathRoot == routside = {}

(***************************************************************************)
(* Claims about Transfer.Do                                                *)
(***************************************************************************)
DeleteEnabled == topts.DeleteMode /\ tioerr = 0 /\ "." \in tlist
TasksStarted == gen # "idle" /\ rcv # "idle" /\ wrap # "idle"

\* C7: a name is removed from the destination only in delete mode, with no
\* i/o error counted and with the top-level directory in the file list; in
\* every other case deleteFiles removes nothing and Do goes on to start
\* the generator and the receiver.
C7_DeletionGuard ==
    /\ ttree # ttree0 => DeleteEnabled
    /\ (tpc \notin {"idle", "start"} /\ ~DeleteEnabled) =>
          /\ ttree = ttree0
          /\ TasksStarted

C7_Witness ==
    /\ topts.DeleteMode
    /\ tioerr > 0
    /\ tlist = {"."}
    /\ ttree0 = DelNames
    /\ ttree = ttree0
    /\ tpc = "done"
    /\ Has(tlog, "-1")

\* C8: once deleteFiles has run in delete mode, without i/o errors and not
\* as a dry run, the names left on disk are exactly those of the file list:
\* every other file and directory, empty or not, is gone.
C8_ExtraneousRemoved ==
    (tpc \notin {"idle", "start"} /\ DeleteEnabled /\ ~topts.DryRun) =>
        ttree = ttree0 \cap tlist

\* C9: when a task of the errgroup has returned an error, Do returns, and
\* returns that first error.
C9_FirstErrorReturned == (egerr # "nil") ~> (tpc = "done" /\ tres = egerr)

\* the half of C9 the code has: an error of the generator makes Do return
\* it, also while RecvFiles is blocked
GeneratorErrorReturned ==
    (generr # "nil" /\ egerr = generr) ~> (tpc = "done" /\ tres = generr)

\* C10: the final -1 is written at most once; when it is written, both
\* tasks have returned nil and, unless noReport, the statistics read,
\* written and size were read before it, in this order; when Do returns an
\* error of a task or of a statistics read, no -1 was written.
C10_Goodbye ==
    /\ Count(tlog, "-1") <= 1
    /\ Has(tlog, "-1") =>
          /\ gen = "returned" /\ generr = "nil"
          /\ wrap = "returned" /\ wraperr = "nil"
          /\ rcv = "sent" /\ rcverr = "nil"
          /\ tlog = (IF topts.noReport THEN <<>> ELSE Stats) \o <<"-1">>
    /\ (tpc = "done" /\ tres # "nil") => ~Has(tlog, "-1")
    /\ (generr # "nil" \/ wraperr # "nil") => tlog = <<>>

C10_Witness ==
    /\ tpc = "done"
    /\ tres = "nil"
    /\ ~topts.noReport
    /\ tlog = <<"read", "written", "size", "-1">>

(***************************************************************************)
(* Claims about the sender of Server.handleConn                            *)
(***************************************************************************)
SenderBlocked == sdpc \in {"requests", "finish"} /\ sdin = <<>>

C12_SenderEnd ==
    /\ Has(sdlog, "end_w") =>
          /\ queued = <<>>
          /\ Count(sdlog, "idx_r") = Count(sdlog, "file_w")
          /\ \A i \in 1..Len(sdlog) :
                sdlog[i] \in {"idx_w", "file_w"} => i < First(sdlog, "end_w")
    /\ Count(sdlog, "end_w") <= 1
    /\ Precedes(sdlog, "end_w", "read_w")
    /\ Precedes(sdlog, "read_w", "written_w")
    /\ Precedes(sdlog, "written_w", "size_w")
    /\ Precedes(sdlog, "size_w", "finish_r")
    /\ Has(sdlog, "finish_r") =>
          SubSeq(sdlog, Len(sdlog) - 4, Len(sdlog)) =
             <<"end_w", "read_w", "written_w", "size_w", "finish_r">>

C12_Witness ==
    /\ sdres = "NYI"
    /\ Count(sdlog, "file_w") = 1
    /\ Last(sdlog) = "finish_r"
    /\ Len(sdin0) = MaxReq

(***************************************************************************)
(* Claims about the daemon handler's arguments                             *)
(***************************************************************************)
\* the events after the empty line that ended the argument lines
AfterArgs ==
    IF Has(dlog, "args_end")
    THEN SubSeq(dlog, First(dlog, "args_end") + 1, Len(dlog))
    ELSE <<>>

\* C14: when ParseArguments fails on the argument lines, the handler writes
\* the seed 0xee, then one multiplexed error frame and nothing else, calls
\* neither the sender nor the receiver and returns the parse error (or the
\* error of the seed's write, and then nothing was written).
C14_ParseError ==
    (Has(dlog, "args_end") /\ ParseArguments(dflags).err # "nil") =>
        /\ dpc = "done"
        /\ drole = "none"
        /\ \/ /\ dres = "parsing server args"
              /\ dseed = errorSeed
              /\ AfterArgs = <<"seed_w", "frame_w">>
           \/ /\ dres = "write error"
              /\ dseed = 0
              /\ AfterArgs = <<>>

C14_Witness ==
    /\ dres = "parsing server args"
    /\ dseed = errorSeed
    /\ Last(dlog) = "frame_w"
    /\ Len(dflags) = MaxFlags
    /\ dflags[MaxFlags] = OptNotImplemented
    /\ dflags[1] = Dot

\* C15: argument lines with an option that ParseArguments does not know or
\* that the implementation does not implement never lead to the call of
\* the sender or receiver.
Unimplemented == {OptNotImplemented, OptCompress}

C15_NoTransferWithBadOption ==
    (\E i \in 1..Len(dflags) : dflags[i] \in {OptUnknown} \cup Unimplemented)
        => ~Has(dlog, "dispatch")

(***************************************************************************)
(* Claims about the module request                                         *)
(***************************************************************************)
\* the events after the module name was read
AfterModule ==
    IF Has(dlog, "module_r")
    THEN SubSeq(dlog, First(dlog, "module_r") + 1, Len(dlog))
    ELSE <<>>

\* C16: for the module name "" or "#list" the handler writes one line
\* "name TAB comment newline" for each configured module, in the order of
\* the configuration, then "@RSYNCD: EXIT", and returns nil; it writes no
\* "@RSYNCD: OK", no seed and no multiplexed frame.
C16_ModuleListing ==
    (Has(dlog, "module_r") /\ dmod \in ListRequest) =>
        /\ dpc = "done"
        /\ dres = "nil"
        /\ Len(dlist) = Len(Modules)
        /\ \A i \in 1..Len(Modules) :
              dlist[i] = <<Modules[i].Name, "\t", Modules[i].Name, "\n">>
        /\ AfterModule = <<"list_w", "exit_w">>
        /\ dseed = 0
        /\ ~Has(dlog, "ok_w") /\ ~Has(dlog, "seed_w") /\ ~Has(dlog, "frame_w")

C16_Witness ==
    /\ dmod = <<"#list">>
    /\ dres = "nil"
    /\ Len(dlist) = Len(Modules)
    /\ Last(dlog) = "exit_w"

\* the module asked for is not configured, or its ACL does not let the
\* remote address in
Refused ==
    /\ Has(dlog, "module_r")
    /\ dmod \notin ListRequest
    /\ \/ ~ModuleFound(dmod)
       \/ checkACL(getModule(dmod).ACL, dip) # "ok"

\* C17: for an unknown module, or a module whose ACL denies the remote
\* address, the handler writes exactly one "@ERROR: ..." line and returns
\* an error; it writes no "@RSYNCD: OK", reads no argument line and writes
\* no seed.
C17_Refused ==
    Refused =>
        /\ dpc = "done"
        /\ dres \in {"no such module", "access denied", "invalid acl",
                     "BUG: invalid remote address"}
        /\ Count(dlog, "error_w") = 1
        /\ Last(dlog) = "error_w"
        /\ dflags = <<>>
        /\ dseed = 0
        /\ dlist = <<>>
        /\ ~Has(dlog, "ok_w") /\ ~Has(dlog, "flag_r")
        /\ ~Has(dlog, "args_end") /\ ~Has(dlog, "seed_w")

C17_Witness ==
    /\ dmod = <<"r">>
    /\ dip = Ip10
    /\ dres = "access denied"
    /\ Last(dlog) = "error_w"

(***************************************************************************)
(* Claims about checkACL                                                   *)
(***************************************************************************)
\* the rule's target is "all" or a CIDR that contains the address
Targets(acl, ip) ==
    \/ acl.who = "all"
    \/ ParseCIDROk(acl.who) /\ Contains(acl.who, ip)

\* a rule "allow|deny all" or "allow|deny <cidr>"
WellFormed(acl) ==
    /\ acl.action \in {"allow", "deny"}
    /\ acl.who = "all" \/ ParseCIDROk(acl.who)

\* the first rule with that target, 0 if there is none
FirstTargeting(acls, ip) ==
    IF \E i \in 1..Len(acls) : Targets(acls[i], ip)
    THEN CHOOSE i \in 1..Len(acls) :
            /\ Targets(acls[i], ip)
            /\ \A j \in 1..(i - 1) : ~Targets(acls[j], ip)
    ELSE 0

\* checkACL returned, and its remote address was one net.ParseIP accepts
Checked == fnpc = "done" /\ fnin.remoteAddr # "unparseable"

\* C18: checkACL decides by the first rule whose target is "all" or a CIDR
\* that contains the remote IP: allow if the rule is "allow", deny if it is
\* "deny", whatever rules follow.
C18_FirstMatchDecides ==
    Checked =>
        LET first == FirstTargeting(fnin.acls, fnin.remoteAddr) IN
        first # 0 =>
            /\ fnin.acls[first].action = "allow" => fnout = "ok"
            /\ fnin.acls[first].action = "deny" => fnout = "access denied"

\* C18: when every rule before it is well formed, the first rule whose
\* target is "all" or a CIDR that contains the remote IP decides: allow if
\* it is "allow", deny if it is "deny", whatever rules follow; a malformed
\* rule that is reached before a decision makes checkACL return an error.
C18_FirstMatchAfterWellFormedDecides ==
    Checked =>
        LET acls == fnin.acls
            first == FirstTargeting(acls, fnin.remoteAddr)
            reached == IF first = 0 THEN Len(acls) ELSE first - 1
        IN  IF \A j \in 1..reached : WellFormed(acls[j])
            THEN first # 0 =>
                    /\ acls[first].action = "allow" => fnout = "ok"
                    /\ acls[first].action = "deny" => fnout = "access denied"
                    /\ ~WellFormed(acls[first]) => fnout = "invalid acl"
            ELSE fnout = "invalid acl"

C18_Witness ==
    /\ fnpc = "done"
    /\ fnin.acls = <<Rule("deny", Net10), Rule("allow", "all")>>
    /\ fnin.remoteAddr = Ip10Hi
    /\ fnout = "access denied"

\* C19: when no rule of the list matches the remote IP, checkACL denies
\* access (stated for the lists that have a rule; the list without rules
\* lets every address in as well).
C19_DefaultDeny ==
    (Checked /\ Len(fnin.acls) > 0) =>
        ((\A i \in 1..Len(fnin.acls) :
             ~Targets(fnin.acls[i], fnin.remoteAddr))
            => fnout # "ok")

(***************************************************************************)
(* Claims about the multiplex writer                                       *)
(***************************************************************************)
\* the 32-bit value of four little-endian bytes
Uint32Of(b) == b[1] + 256 * b[2] + 65536 * b[3] + 16777216 * b[4]

\* C20: for every payload length the header written has the tag 7 in its
\* top 8 bits and len(p) & 0x00FFFFFF in its low 24 bits, and as many
\* payload bytes follow it as it announces.
C20_Header ==
    (fnpc = "done" /\ fnout.err = "nil") =>
        LET header == Uint32Of(fnout.header) IN
        /\ header \div 2 ^ 24 = 7
        /\ header % 2 ^ 24 = fnin % 2 ^ 24
        /\ fnout.payload = header % 2 ^ 24

(***************************************************************************)
(* Claims about the two directions of a connection                         *)
(***************************************************************************)
\* the position of the seed among the items the server wrote, 0 before
SeedAt ==
    IF \E i \in 1..Len(s2c) : s2c[i].what = "seed"
    THEN CHOOSE i \in 1..Len(s2c) : s2c[i].what = "seed"
    ELSE 0

\* C13: the seed goes out raw; every item the server writes after it is a
\* multiplexed frame, and the client reads the seed raw and every item
\* after it through the demultiplexer, so that it misreads none; what the
\* client writes is never framed and the server reads it unframed.
C13_OneDirectionMultiplexed ==
    /\ \A i \in 1..Len(s2c) :
          s2c[i].kind = (IF SeedAt # 0 /\ i > SeedAt THEN "frame" ELSE "raw")
    /\ \A i \in 1..Len(cliread) : cliread[i].ok
    /\ (clir = "demux") = (Len(cliread) >= SeedAt /\ SeedAt # 0)
    /\ \A i \in 1..Len(c2s) : c2s[i].kind = "raw"
    /\ \A i \in 1..Len(srvread) : srvread[i].ok
    /\ srvr = "raw"
    /\ cliw = "raw"

C13_Witness ==
    /\ negotiate
    /\ srvpc = "done"
    /\ Last(s2c).what = "error"
    /\ Len(cliread) = Len(s2c)
    /\ Len(srvread) = Len(c2s)
    /\ srvn = MaxMsgs
    /\ clin = MaxMsgs

(***************************************************************************)
(* Claims about the daemon handler                                         *)
(***************************************************************************)
MainOrder ==
    <<"greeting_w", "greeting_r", "module_r", "lookup", "acl_check", "ok_w",
      "args_end", "seed_w", "mux", "dispatch">>

\* C1: the events of the daemon handler occur only in the order greeting
\* written, client greeting read, module name read, module lookup and ACL
\* check, OK written, argument lines read up to the empty line, seed
\* written, writer switched to multiplexed mode, dispatch; each at most
\* once.  OK is written only for a module that was found and whose ACL
\* passed, and no multiplexed frame is written before the seed.
C1_HandlerOrder ==
    /\ \A k \in 1..Len(MainOrder) : Count(dlog, MainOrder[k]) <= 1
    /\ \A k \in 2..Len(MainOrder) :
          Precedes(dlog, MainOrder[k - 1], MainOrder[k])
    /\ Precedes(dlog, "ok_w", "flag_r")
    /\ \A i, j \in 1..Len(dlog) :
          dlog[i] = "flag_r" /\ dlog[j] = "args_end" => i < j
    /\ Has(dlog, "ok_w") =>
          /\ ModuleFound(dmod)
          /\ checkACL(getModule(dmod).ACL, dip) = "ok"
    /\ Precedes(dlog, "seed_w", "frame_w")
    /\ Has(dlog, "seed_w") => dseed \in {sessionChecksumSeed, errorSeed}

\* a handler that ran to the end of a transfer for a module with an ACL
C1_Witness ==
    /\ dpc = "done"
    /\ dres = "nil"
    /\ Has(dlog, "dispatch")
    /\ Len(getModule(dmod).ACL) > 0
    /\ Len(dflags) = MaxFlags

(***************************************************************************)
(* Claims about writeInt64                                                 *)
(***************************************************************************)
\* C21: writeInt64 writes the four bytes of the int32 exactly when
\* 0 <= v <= 2^31-1, and otherwise the int32 -1 followed by the eight
\* little-endian bytes of v; the decoder that reads an int32 and, when it
\* is -1, the eight bytes after it gets v back.
C21_Int64RoundTrip ==
    (fnpc = "done" /\ fnout.err = "nil") =>
        LET nonNegative == fnin[4] < 32768
            below2to31 == fnin[4] = 0 /\ fnin[3] = 0 /\ fnin[2] < 32768
        IN  /\ (nonNegative /\ below2to31) <=> Len(fnout.bytes) = 4
            /\ Len(fnout.bytes) \in {4, 12}
            /\ Len(fnout.bytes) = 12 =>
                  /\ SubSeq(fnout.bytes, 1, 4) = MinusOne32
                  /\ SubSeq(fnout.bytes, 5, 12) = PutInt64(fnin)
            /\ readInt64(fnout.bytes) = fnin

C21_Witness ==
    /\ fnpc = "done"
    /\ fnout.err = "nil"
    /\ fnin = <<65535, 65535, 0, 0>>
    /\ Len(fnout.bytes) = 12

(***************************************************************************)
(* Claims about sumSizesSqroot                                             *)
(***************************************************************************)
\* ceil(len / b) as limbs
CeilDiv(len, b) ==
    LET d == DivMod(len, b) IN
    IF d.rem = 0 THEN d.q ELSE AddInt(d.q, 1)

\* the int64 value of an int32 held as two limbs, when it is not negative
Int64Of(v) == <<v[1], v[2], 0, 0>>

\* C22: for every file length L >= 0 the sum head has
\* ChecksumCount = ceil(L / BlockLength), RemainderLength = L mod
\* BlockLength, BlockLength >= 700 and ChecksumLength = 16.
C22_SumHeadArithmetic ==
    fnpc = "done" =>
        /\ fnout.BlockLength >= 700
        /\ fnout.ChecksumLength = 16
        /\ fnout.RemainderLength = DivMod(fnin, fnout.BlockLength).rem
        /\ fnout.ChecksumCount[2] < 32768
        /\ Int64Of(fnout.ChecksumCount) = CeilDiv(fnin, fnout.BlockLength)

\* the same for the lengths below 2^31, in plain integers
SumHeadArithmeticShort ==
    (fnpc = "done" /\ IsShort(fnin)) =>
        LET len == ToInt(fnin)
            count == fnout.ChecksumCount[1] + 65536 * fnout.ChecksumCount[2]
        IN  /\ fnout.BlockLength >= 700
            /\ fnout.ChecksumLength = 16
            /\ fnout.RemainderLength = len % fnout.BlockLength
            /\ count = (len \div fnout.BlockLength)
                          + (IF len % fnout.BlockLength > 0 THEN 1 ELSE 0)
            /\ len <= 1000000 =>
                  LET sh == sumSizesSqroot(len) IN
                  /\ sh.ChecksumCount = count
                  /\ sh.BlockLength = fnout.BlockLength
                  /\ sh.RemainderLength = fnout.RemainderLength

(***************************************************************************)
(* Claims about Serve                                                      *)
(***************************************************************************)
\* C23: once the context is cancelled the listener gets closed, and Serve,
\* if it has not returned yet, returns nil; the cancellation, the closing
\* of the listener and the return of Serve leave every handler as it is;
\* an error of Accept without cancellation is what Serve returns.
C23_Serve ==
    /\ [](lnclosed => ctxdone)
    /\ ctxdone ~> lnclosed
    /\ (ctxdone /\ servepc = "accept") ~> (servepc = "done" /\ serveres = "nil")
    /\ [][(ctxdone' # ctxdone \/ lnclosed' # lnclosed \/ servepc' # servepc)
             => handlers' = handlers]_vars
    /\ [][servepc' # servepc =>
             /\ servepc' = "done"
             /\ ctxdone => serveres' = "nil"
             /\ ~ctxdone => serveres' = "accept error"]_vars

C23_Witness ==
    /\ servepc = "done"
    /\ serveres = "nil"
    /\ lnclosed
    /\ Len(handlers) = 2
    /\ handlers[1] = "running"
    /\ handlers[2] = "returned"

(***************************************************************************)
(* Claims about the exchange of versions and seed                          *)
(***************************************************************************)
\* the steps of HandleConn and clientRun up to the seed
Handshake ==
    \/ ServerNegotiate
    \/ ServerSeed
    \/ ClientWritesVersion
    \/ ClientReadsVersion
    \/ ClientSeed

\* what the client read as the seed
ClientSeedItem == cliread[IF negotiate THEN 2 ELSE 1]

\* C24: with negotiate the client writes its version and then reads, the
\* server reads and then writes its version and the seed; also on pipes
\* without a buffer one of the two can take a step until the client has
\* the seed, and what the client takes for the seed is the seed the server
\* wrote, read as it was written.
C24_Handshake ==
    /\ clipc \in {"writeVersion", "readVersion", "seed"} => ENABLED Handshake
    /\ negotiate =>
          /\ clipc = "writeVersion" => s2c = <<>> /\ srvpc = "readVersion"
          /\ Len(s2c) > 0 => (Len(srvread) > 0 /\ srvread[1].what = "version")
          /\ Len(s2c) > 0 => s2c[1].what = "version"
          /\ Len(s2c) > 1 => s2c[2].what = "seed"
    /\ clipc = "transfer" =>
          /\ ClientSeedItem.what = "seed"
          /\ ClientSeedItem.ok
          /\ s2c[IF negotiate THEN 2 ELSE 1] = Item("raw", "seed")

C24_Witness ==
    /\ negotiate
    /\ syncpipe
    /\ clipc = "transfer"
    /\ srvpc = "transfer"
    /\ Len(cliread) = 2
    /\ ClientSeedItem.what = "seed"

(***************************************************************************)
(* Claims about repeated runs                                              *)
(***************************************************************************)
\* the last run was made right after the one before, with no change in
\* between
Repeated == Len(yruns) = 2 /\ ~yruns[2].changed

\* two trees are the same, up to the mtimes when they are not preserved
SameTree(a, b) ==
    \A n \in SyncNames :
        IF yopts.PreserveTimes THEN a[n] = b[n]
        ELSE [a[n] EXCEPT !.mtime = 0] = [b[n] EXCEPT !.mtime = 0]

\* the destination has what the source lists: content, mtime where
\* preserved, symlink target where preserved
IdenticalToSource(r) ==
    /\ r.src["hello"].kind = "reg" =>
          /\ r.dst["hello"].kind = "reg"
          /\ r.dst["hello"].data = r.src["hello"].data
          /\ yopts.PreserveTimes =>
                r.dst["hello"].mtime = r.src["hello"].mtime
    /\ (r.src["hey"].kind = "link" /\ yopts.PreserveLinks) =>
          r.dst["hey"] = r.src["hey"]

HandlerReturned == dpc = "done" /\ Has(dlog, "dispatch")

\* C27: a receiver transfer into a module that is not writable is refused
\* with 'module is read only', before the exclusion list or the file list
\* is read and before rt.Do touches a path under the module's root.
C27_ReadOnlyModule ==
    /\ (HandlerReturned /\ drole = "receiver" /\ ~getModule(dmod).Writable)
          => /\ dres = "module is read only"
             /\ ~Has(dlog, "excl_r")
             /\ ~Has(dlog, "flist_r")
             /\ ~Has(dlog, "do_fs")
    /\ dres = "module is read only"
          => (drole = "receiver" /\ ~getModule(dmod).Writable)

C27_Witness ==
    /\ HandlerReturned
    /\ drole = "receiver"
    /\ ~getModule(dmod).Writable
    /\ dres = "module is read only"

\* C30: when the handler HandleConn dispatched to returns an error,
\* HandleConn writes one multiplexed error frame with that error, as its
\* last write, and returns the same error; when the handler returns nil
\* no error frame is written.
C30_ErrorFrame ==
    HandlerReturned =>
        /\ dres # "nil" =>
              /\ Count(dlog, "frame_w") = 1
              /\ Last(dlog) = "frame_w"
              /\ Precedes(dlog, "mux", "frame_w")
              /\ dframe = [role |-> drole, err |-> dres]
        /\ dres = "nil" =>
              /\ ~Has(dlog, "frame_w")
              /\ dframe = <<>>

C30_Witness ==
    /\ HandlerReturned
    /\ drole = "sender"
    /\ dres = "transfer error"
    /\ Has(dlog, "do_fs")
    /\ dframe = [role |-> "sender", err |-> "transfer error"]

(***************************************************************************)
(* Claims about the indices received from the peer                         *)
(***************************************************************************)
\* C28: an index received from the peer that is not -1 and is negative or
\* not smaller than the length of the file list makes RecvFiles and the
\* sender return an error; the file list is never indexed with it.
C28_IndexChecked ==
    /\ rres # "panic: index out of range"
    /\ sdres # "panic: index out of range"

(***************************************************************************)
(* Claims about the order of deletion and transfer                         *)
(***************************************************************************)
\* what deleteFiles does to the tree Do was called with
Deleted == deleteFiles(tlist, ttree0, topts.DryRun, tioerr)

TasksIdle == gen = "idle" /\ rcv = "idle" /\ wrap = "idle"

\* C29: in delete mode deleteFiles is complete before the generator task
\* and the receiver task exist, so before either writes or reads an index:
\* the tree changes only while both are not started, and once one is
\* started the tree is the one deleteFiles left; if deleteFiles returns an
\* error no task is ever started and Do returns that error.
C29_DeleteBeforeTransfer ==
    /\ [][ttree' # ttree => (tpc = "start" /\ TasksIdle)]_vars
    /\ [](topts.DeleteMode =>
            /\ ~TasksIdle => (Deleted.err = "nil" /\ ttree = Deleted.tree)
            /\ (tpc # "start" /\ Deleted.err # "nil") =>
                  (tpc = "done" /\ TasksIdle /\ tres = Deleted.err))

C29_Witness ==
    /\ topts.DeleteMode
    /\ ttree # ttree0
    /\ ttree = Deleted.tree
    /\ gen = "running"
    /\ rcv = "running"

(***************************************************************************)
(* Claims about the end of receiveData and its back-references             *)
(***************************************************************************)
\* C31: owner, group, mode and mtime of a received file are applied before
\* the pending file is renamed to its final name: every rename has the
\* call of setPerms before it, and when setPerms fails the final name
\* still has what it had before the file was received.
C31_AttributesBeforeRename ==
    /\ Precedes(rlog, "setPerms", "rename")
    /\ rres = "setPerms error" => fs = rprev

\* the bytes that a sequence of writes makes, in order
RECURSIVE Flatten(_)
Flatten(parts) ==
    IF parts = <<>> THEN <<>>
    ELSE Flatten(SubSeq(parts, 1, Len(parts) - 1)) \o Last(parts).data

\* the bytes [from, from + n) of a file, counted from 0
BytesAt(file, from, n) == [j \in 1..n |-> file[from + j]]

\* the length of block i under a sum head
BlockLen(sh, i) ==
    IF i = sh.ChecksumCount - 1 /\ sh.RemainderLength # 0
    THEN sh.RemainderLength ELSE sh.BlockLength

\* C32: what a token -(i+1) makes receiveData write is the bytes
\* [i*BlockLength, i*BlockLength + n) of the local file, n the remainder
\* length for the last block when it is not 0 and the block length
\* otherwise; the pending file and the bytes hashed are the writes of the
\* tokens in their order, and the local checksum is taken of them.
C32_BlockCopied ==
    /\ [](rtmp.at # "none" =>
            /\ \A k \in 1..Len(rtmp.parts) :
                  LET p == rtmp.parts[k]
                      i == -(p.n + 1)
                  IN  p.n < 0 =>
                        /\ rlocal # "nil"
                        /\ i * rsh.BlockLength + BlockLen(rsh, i)
                              <= Len(fs[rlocal].data)
                        /\ p.data = BytesAt(fs[rlocal].data,
                                            i * rsh.BlockLength,
                                            BlockLen(rsh, i))
            /\ rtmp.data = Flatten(rtmp.parts)
            /\ rtmp.sum = Flatten(rtmp.parts))
    /\ [][rlsum' # rlsum => rlsum' = LocalSum(Flatten(rtmp.parts))]_vars

\* block 0 is the last block and the remainder length is not 0
C32_Witness ==
    /\ rtmp.at # "none"
    /\ rsh.ChecksumCount = 1 /\ rsh.BlockLength = 2 /\ rsh.RemainderLength = 1
    /\ Len(rtmp.parts) = 2
    /\ rtmp.parts[1].n > 0
    /\ rtmp.parts[2].n = -1
    /\ Len(rtmp.parts[2].data) = 1
    /\ Len(fs[rlocal].data) = 2

\* C33: receiveData copies no block that the sum head does not describe:
\* every back-reference that wrote to the pending file has a block index
\* smaller than the block count, and a local file was open for it.
C33_OnlyDescribedBlocks ==
    rtmp.at # "none" =>
        \A k \in 1..Len(rtmp.parts) :
            rtmp.parts[k].n < 0 =>
                /\ rlocal # "nil"
                /\ -(rtmp.parts[k].n + 1) < rsh.ChecksumCount

(***************************************************************************)
(* Claims about dry runs                                                   *)
(***************************************************************************)
\* C34: with dry-run set the receiver leaves the destination unchanged:
\* RecvFiles reads indices only, no sum head and no token, creates no
\* pending file and changes no file; deleteFiles removes no path.
C34_DryRunUnchanged ==
    /\ [][ropts.DryRun => fs' = fs]_vars
    /\ [](ropts.DryRun =>
            /\ rpc \in {"readIdx", "done"}
            /\ rsh = NoSumHead
            /\ rtmp = NoTmp
            /\ rlog = <<>>
            /\ routside = {})
    /\ [][topts.DryRun => ttree' = ttree]_vars
    /\ [](topts.DryRun => ttree = ttree0)

\* a dry run in delete mode with a name on disk that is not in the list,
\* after deleteFiles
C34_Witness ==
    /\ topts.DryRun /\ topts.DeleteMode
    /\ tioerr = 0
    /\ tpc = "wait"
    /\ "." \in tlist
    /\ "a" \in ttree /\ "a" \notin tlist

(***************************************************************************)
(* Claims about the requested paths                                        *)
(***************************************************************************)
\* a path without the prefix name/, "." if nothing is left
WithoutModule(path, name) ==
    LET prefix == name \o <<"/">> IN
    IF Len(path) >= Len(prefix) /\ SubSeq(path, 1, Len(prefix)) = prefix
    THEN IF Len(path) = Len(prefix) THEN Dot
         ELSE SubSeq(path, Len(prefix) + 1, Len(path))
    ELSE path

\* C35: the paths handed to HandleConn are the requested paths without the
\* prefix <module name>/, an empty result replaced by ".": m/s becomes s
\* and m/ becomes "." for the module m.
C35_ModulePrefixStripped ==
    (dpc \in {"handleConn", "transfer"} /\ dpaths # <<>>) =>
        LET remaining == Filter(dflags, ArgLines \ Options) IN
        \A i \in 1..Len(dpaths) :
            dpaths[i] = WithoutModule(remaining[i + 1], dmod)

(***************************************************************************)
(* Claims about the sender's file list and sum heads                       *)
(***************************************************************************)
\* C36: sendFileList ends the file list with the zero status byte, then
\* the i/o error count, and after that the user map and the group map,
\* each ended by its end of set.
C36_ErrorCountBeforeMaps ==
    (fnpc = "done" /\ fnout.err = "nil") =>
        LET items == fnout.items
            end == First(items, "end_of_list")
        IN  /\ end # 0
            /\ Len(items) = end + 1 + 2 * Len(idMap)
            /\ items[end + 1] = "io_errors"
            /\ SubSeq(items, end + 2, Len(items)) = idMap \o idMap

\* C37: for a file of length 0 the sum head written is all zero: block
\* count 0, block length 0, strong length 0, remainder length 0.
C37_EmptyFileSumHead ==
    (fnpc = "done" /\ fnin = ToLimbs(0)) =>
        /\ fnout.ChecksumCount = <<0, 0>>
        /\ fnout.BlockLength = 0
        /\ fnout.ChecksumLength = 0
        /\ fnout.RemainderLength = 0

\* the square root of n rounded to the nearest integer: with r the integer
\* part, the root is at least r + 1/2 exactly when n > r * r + r
RoundSqrt(n) == LET r == Sqrt(n) IN IF n - r * r > r THEN r + 1 ELSE r

\* C38: the block length of a file of length L is max(700, round(sqrt(L))),
\* the square root rounded to the nearest integer.
C38_RoundedRoot ==
    (fnpc = "done" /\ IsShort(fnin)) =>
        fnout.BlockLength =
            (IF RoundSqrt(ToInt(fnin)) < 700 THEN 700
             ELSE RoundSqrt(ToInt(fnin)))

(***************************************************************************)
(* Claims about the client's byte counters                                 *)
(***************************************************************************)
RECURSIVE BytesOf(_)
BytesOf(items) ==
    IF items = <<>> THEN 0
    ELSE ItemBytes(items[1]) + BytesOf(Tail(items))

\* C39: on the client every byte read from the connection, before and
\* after the switch to the demultiplexing reader, is counted by the
\* CountingReader and every byte written by the CountingWriter.
C39_AllBytesCounted ==
    /\ clicnt.crd = BytesOf(SubSeq(s2c, 1, Len(cliread)))
    /\ clicnt.cwr = BytesOf(c2s)

(***************************************************************************)
(* Claims about the connections of Serve                                   *)
(***************************************************************************)
\* the handler of connection i returns in this step
Returns(i) == handlers[i] = "running" /\ handlers'[i] = "returned"

\* C40: every accepted connection has its own handler and socket: the
\* socket is closed exactly when the handler has returned, with or without
\* an error; an error is logged; the return of a handler changes nothing
\* of Serve, of the listener or of another connection, and Serve goes on
\* accepting whatever handlers returned.
C40_ConnectionsIndependent ==
    /\ [](Len(conns) = Len(handlers))
    /\ [](\A i \in 1..Len(conns) :
            /\ conns[i].closed <=> handlers[i] = "returned"
            /\ handlers[i] = "returned" =>
                  /\ conns[i].err \in {"nil", "error"}
                  /\ conns[i].logged <=> conns[i].err = "error")
    /\ [][\A i \in 1..Len(handlers) :
            Returns(i) =>
                /\ servepc' = servepc /\ serveres' = serveres
                /\ lnclosed' = lnclosed /\ ctxdone' = ctxdone
                /\ \A j \in 1..Len(handlers) :
                      j # i => (handlers'[j] = handlers[j]
                                  /\ conns'[j] = conns[j])]_vars
    /\ []((servepc = "accept" /\ ~lnclosed /\ Len(handlers) < MaxConns)
            => ENABLED Accept)

\* the first handler returned an error, the second nil, a third connection
\* was accepted and Serve is still accepting
C40_Witness ==
    /\ servepc = "accept" /\ ~lnclosed
    /\ Len(conns) = 3
    /\ conns[1] = [closed |-> TRUE, err |-> "error", logged |-> TRUE]
    /\ conns[2] = [closed |-> TRUE, err |-> "nil", logged |-> FALSE]
    /\ conns[3] = OpenConn

=============================================================================
